---- MODULE Spec2Model ----
(***************************************************************************)
(* Cycle-level model of the Sampo 16-bit CPU (rtl/cpu.py) with its         *)
(* decoder (rtl/decode.py), ALU and shifter (rtl/alu.py) and register file *)
(* (rtl/regfile.py).  One step of the model is one clock edge; the actions *)
(* are the states of the engine's FSM.  Combinational signals are          *)
(* operators over the current state, sequential signals are variables.     *)
(***************************************************************************)
EXTENDS Integers, Sequences, FiniteSets, TLC

VARIABLES
    state,          \* cpu.py: FSM state (CPUState)
    pc,             \* cpu.py: pc = Signal(16, reset=reset_vector)
    flags,          \* cpu.py: flags = Signal(8)
    cycles,         \* cpu.py: cycles = Signal(32)
    instr,          \* cpu.py: instr = Signal(16)
    instr_ext,      \* cpu.py: instr_ext = Signal(16)
    alu_result,     \* cpu.py: alu_result = Signal(16)
    mem_addr_reg,   \* cpu.py: mem_addr_reg = Signal(16)
    mem_data_reg,   \* cpu.py: mem_data_reg = Signal(16)
    int_enabled,    \* cpu.py: int_enabled = Signal()
    regs,           \* regfile.py: regs = Array of 16 Signal(16)
    regs_alt,       \* regfile.py: regs_alt = Array of 8 Signal(16)
    rf_tb,          \* test_cpu.py test_regfile: port signals driven/observed
    alu_tb,         \* test_cpu.py test_alu: ALU inputs driven, outputs observed
    bt_tb,          \* branch_taken evaluated on driven branch_cond and flags
    st_tb,          \* MEMORY-state store bus driving the RAM of soc.py
    sh_tb,          \* alu.py Shifter: inputs driven, outputs observed
    mem_ready,      \* cpu.py: the mem_ready input at the last edge that
                    \* sampled it (FETCH, FETCH_EXT, MEMORY)
    uart,           \* soc.py UART: tx_buf, tx_pending, rx_buf, rx_ready_int
    uart_tb,        \* UART ports driven in the last cycle, bytes written to
                    \* the data port and bytes seen by the TX consumer
    soc_ram         \* soc.py RAM: memory array, ready, read port address

cpuVars == <<state, pc, flags, cycles, instr, instr_ext, alu_result,
             mem_addr_reg, mem_data_reg, int_enabled>>
rfVars == <<regs, regs_alt>>
tbVars == <<rf_tb, alu_tb, bt_tb, st_tb, sh_tb>>
uartVars == <<uart, uart_tb, soc_ram>>
ramVars == <<soc_ram>>
socVars == <<uart, uart_tb, soc_ram>>
vars == <<state, pc, flags, cycles, instr, instr_ext, alu_result,
          mem_addr_reg, mem_data_reg, int_enabled, regs, regs_alt,
          rf_tb, alu_tb, bt_tb, st_tb, sh_tb, mem_ready, uart, uart_tb, soc_ram>>

(***************************************************************************)
(* Fixed-width arithmetic.                                                 *)
(***************************************************************************)
Pow2(n) == 2^n

\* value truncated to w bits (assignment to a Signal(w))
Trunc(x, w) == x % Pow2(w)

\* bit i of x (x[i])
Bit(x, i) == (x \div Pow2(i)) % 2

\* bits lo..hi-1 of x (x[lo:hi])
Slice(x, lo, hi) == (x \div Pow2(lo)) % Pow2(hi - lo)

\* two's complement reading of a w-bit value (x.as_signed())
AsSigned(x, w) == IF x >= Pow2(w - 1) THEN x - Pow2(w) ELSE x

RECURSIVE AndN(_, _, _)
AndN(a, b, n) ==
    IF n = 0 THEN 0
    ELSE (a % 2) * (b % 2) + 2 * AndN(a \div 2, b \div 2, n - 1)

BitAnd(a, b) == AndN(a, b, 17)
BitOr(a, b) == a + b - AndN(a, b, 17)
BitXor(a, b) == a + b - 2 * AndN(a, b, 17)

BoolBit(p) == IF p THEN 1 ELSE 0

\* x // y and x % y of the hardware description language: floor division and
\* the remainder that goes with it (sign of the divisor), for y # 0
FloorDiv(x, y) == IF y > 0 THEN x \div y ELSE (0 - x) \div (0 - y)
FloorMod(x, y) == x - y * FloorDiv(x, y)

(***************************************************************************)
(* rtl/decode.py                                                           *)
(***************************************************************************)
InstType == [ALU_REG |-> 0, ALU_IMM |-> 1, LOAD |-> 2, STORE |-> 3,
             BRANCH |-> 4, JUMP |-> 5, JUMP_REG |-> 6, SHIFT |-> 7,
             MULDIV |-> 8, MISC |-> 9, IO |-> 10, SYSTEM |-> 11,
             EXTENDED |-> 12, INVALID |-> 15]

ALUOp == [ADD |-> 0, SUB |-> 1, AND |-> 2, OR |-> 3, XOR |-> 4, SLL |-> 5,
          SRL |-> 6, SRA |-> 7, MUL |-> 8, MULH |-> 9, DIV |-> 10,
          REM |-> 11, PASS_A |-> 12, PASS_B |-> 13, NOT |-> 14, NEG |-> 15]

\* decoder outputs before the main Switch(opcode)
DecoderDefaults(i) ==
    [inst_type |-> InstType.INVALID,
     rd |-> Slice(i, 8, 12), rs1 |-> Slice(i, 4, 8), rs2 |-> Slice(i, 0, 4),
     func |-> Slice(i, 0, 4),
     shift_func |-> Slice(i, 0, 4), branch_cond |-> Slice(i, 8, 12),
     imm8 |-> Trunc(AsSigned(Slice(i, 0, 8), 8), 16),
     offset8 |-> AsSigned(Slice(i, 0, 8), 8),
     offset12 |-> IF Bit(i, 11) = 1
                  THEN AsSigned(Slice(i, 0, 12) + 15 * 4096, 16)
                  ELSE Slice(i, 0, 12),
     alu_op |-> ALUOp.ADD,
     mem_load |-> FALSE, mem_store |-> FALSE, mem_byte |-> FALSE,
     mem_signed |-> FALSE, reg_write |-> FALSE,
     is_jump |-> FALSE, is_branch |-> FALSE, is_call |-> FALSE,
     is_ret |-> FALSE, is_extended |-> FALSE, is_halt |-> FALSE,
     is_nop |-> FALSE, is_exx |-> FALSE, is_ei |-> FALSE, is_di |-> FALSE,
     is_reti |-> FALSE, is_io_in |-> FALSE, is_io_out |-> FALSE,
     io_port_imm |-> FALSE, is_push |-> FALSE, is_pop |-> FALSE]

\* Case(0x0)..Case(0x5): ADD, SUB, AND, OR, XOR, ADDI
DecodeAlu(d, opcode) ==
    IF opcode = 5
    THEN [d EXCEPT !.inst_type = InstType.ALU_IMM, !.alu_op = ALUOp.ADD,
                   !.reg_write = TRUE]
    ELSE [d EXCEPT !.inst_type = InstType.ALU_REG, !.alu_op = opcode,
                   !.reg_write = TRUE]

\* Case(0x6): LOAD operations
DecodeLoad(d) ==
    LET l == [d EXCEPT !.inst_type = InstType.LOAD, !.mem_load = TRUE,
                       !.reg_write = TRUE]
    IN  CASE d.func = 1 -> [l EXCEPT !.mem_byte = TRUE, !.mem_signed = TRUE]
          [] d.func = 2 -> [l EXCEPT !.mem_byte = TRUE, !.mem_signed = FALSE]
          [] d.func = 8 -> [l EXCEPT !.mem_load = FALSE,
                                     !.inst_type = InstType.ALU_IMM]
          [] OTHER -> l

\* Case(0x7): STORE operations
DecodeStore(d) ==
    [d EXCEPT !.inst_type = InstType.STORE, !.mem_store = TRUE,
              !.mem_byte = (d.func = 1)]

\* a JUMP case that takes func = 1 as JALR whatever rd is
DecodeJump_JalrAnyRd(d, i) ==
    IF BitAnd(i, 3855) = 3840
    THEN [d EXCEPT !.inst_type = InstType.JUMP_REG, !.is_jump = TRUE,
                   !.is_ret = (d.rs1 = 1)]
    ELSE IF d.func = 1
    THEN [d EXCEPT !.inst_type = InstType.JUMP_REG, !.is_jump = TRUE,
                   !.is_call = TRUE, !.reg_write = TRUE]
    ELSE [d EXCEPT !.inst_type = InstType.JUMP, !.is_jump = TRUE]

\* Case(0x9): JUMP
DecodeJump(d, i) ==
    IF BitAnd(i, 3855) = 3840
    THEN [d EXCEPT !.inst_type = InstType.JUMP_REG, !.is_jump = TRUE,
                   !.is_ret = (d.rs1 = 1)]
    ELSE IF d.func = 1 /\ d.rd # 0
    THEN [d EXCEPT !.inst_type = InstType.JUMP_REG, !.is_jump = TRUE,
                   !.is_call = TRUE, !.reg_write = TRUE]
    ELSE [d EXCEPT !.inst_type = InstType.JUMP, !.is_jump = TRUE]

\* Case(0xB): MULDIV
DecodeMulDiv(d) ==
    LET m == [d EXCEPT !.inst_type = InstType.MULDIV, !.reg_write = TRUE]
    IN  CASE d.func = 0 -> [m EXCEPT !.alu_op = ALUOp.MUL]
          [] d.func = 1 -> [m EXCEPT !.alu_op = ALUOp.MULH]
          [] d.func = 3 -> [m EXCEPT !.alu_op = ALUOp.DIV]
          [] d.func = 5 -> [m EXCEPT !.alu_op = ALUOp.REM]
          [] OTHER -> m

\* Case(0xC): MISC
DecodeMisc(d) ==
    LET m == [d EXCEPT !.inst_type = InstType.MISC]
    IN  CASE d.func = 0 -> [m EXCEPT !.is_push = TRUE]
          [] d.func = 1 -> [m EXCEPT !.is_pop = TRUE, !.reg_write = TRUE]
          [] d.func = 2 -> [m EXCEPT !.alu_op = ALUOp.SUB]
          [] d.func = 3 -> [m EXCEPT !.alu_op = ALUOp.AND]
          [] d.func = 4 -> [m EXCEPT !.alu_op = ALUOp.PASS_B,
                                     !.reg_write = TRUE]
          [] d.func = 11 -> [m EXCEPT !.is_exx = TRUE]
          [] d.func = 12 -> [m EXCEPT !.reg_write = TRUE]
          [] OTHER -> m

\* Case(0xD): I/O
DecodeIO(d) ==
    LET m == [d EXCEPT !.inst_type = InstType.IO]
    IN  CASE d.func = 0 -> [m EXCEPT !.is_io_in = TRUE, !.io_port_imm = TRUE,
                                     !.reg_write = TRUE]
          [] d.func = 1 -> [m EXCEPT !.is_io_out = TRUE, !.io_port_imm = TRUE]
          [] d.func = 2 -> [m EXCEPT !.is_io_in = TRUE, !.reg_write = TRUE]
          [] d.func = 3 -> [m EXCEPT !.is_io_out = TRUE]
          [] OTHER -> m

\* Case(0xE): SYSTEM (sub-function in the rd nibble)
DecodeSystem(d) ==
    LET m == [d EXCEPT !.inst_type = InstType.SYSTEM]
    IN  CASE d.rd = 0 -> [m EXCEPT !.is_nop = TRUE]
          [] d.rd = 1 -> [m EXCEPT !.is_halt = TRUE]
          [] d.rd = 2 -> [m EXCEPT !.is_di = TRUE]
          [] d.rd = 3 -> [m EXCEPT !.is_ei = TRUE]
          [] d.rd = 4 -> [m EXCEPT !.is_reti = TRUE]
          [] OTHER -> m

\* Case(0xF): EXTENDED (32-bit)
DecodeExtended(d) ==
    LET m == [d EXCEPT !.inst_type = InstType.EXTENDED,
                       !.is_extended = TRUE]
    IN  CASE d.func \in 0..4 -> [m EXCEPT !.alu_op = d.func,
                                          !.reg_write = TRUE]
          [] d.func = 5 -> [m EXCEPT !.mem_load = TRUE, !.reg_write = TRUE]
          [] d.func = 6 -> [m EXCEPT !.mem_store = TRUE]
          [] d.func = 7 -> [m EXCEPT !.alu_op = ALUOp.PASS_B,
                                     !.reg_write = TRUE]
          [] d.func = 8 -> [m EXCEPT !.is_jump = TRUE]
          [] d.func = 9 -> [m EXCEPT !.is_jump = TRUE, !.is_call = TRUE,
                                     !.reg_write = TRUE]
          [] d.func = 10 -> [m EXCEPT !.alu_op = ALUOp.SUB]
          [] d.func = 11 -> [m EXCEPT !.is_io_in = TRUE,
                                      !.io_port_imm = TRUE,
                                      !.reg_write = TRUE]
          [] d.func = 12 -> [m EXCEPT !.is_io_out = TRUE,
                                      !.io_port_imm = TRUE]
          [] OTHER -> m

\* Decoder.elaborate: control signals of the 16-bit instruction word i
Decode(i) ==
    LET d == DecoderDefaults(i)
        opcode == Slice(i, 12, 16)
    IN  CASE opcode \in 0..5 -> DecodeAlu(d, opcode)
          [] opcode = 6 -> DecodeLoad(d)
          [] opcode = 7 -> DecodeStore(d)
          [] opcode = 8 -> [d EXCEPT !.inst_type = InstType.BRANCH,
                                     !.is_branch = TRUE]
          [] opcode = 9 -> DecodeJump(d, i)
          [] opcode = 10 -> [d EXCEPT !.inst_type = InstType.SHIFT,
                                      !.reg_write = TRUE]
          [] opcode = 11 -> DecodeMulDiv(d)
          [] opcode = 12 -> DecodeMisc(d)
          [] opcode = 13 -> DecodeIO(d)
          [] opcode = 14 -> DecodeSystem(d)
          [] OTHER -> DecodeExtended(d)

(***************************************************************************)
(* rtl/alu.py                                                              *)
(***************************************************************************)
\* result_wide (17 bits) of the main Switch(self.op).  Operators keep the
\* widths the expressions have in the source: a - b and a + b are 17 bits
\* unsigned; a.as_signed() >> n and -b.as_signed() are signed and wrap to 17
\* bits; the signed quotient is 17 bits wide; the signed remainder is 16 bits
\* wide; // and % round toward minus infinity.
AluWide(a, b, op, shift_amt) ==
    LET sa == AsSigned(a, 16)
        sb == AsSigned(b, 16)
        mul_result == sa * sb    \* Slice of a negative value reads its
                                 \* two's complement bits
    IN  CASE op = ALUOp.ADD -> a + b
          [] op = ALUOp.SUB -> Trunc(a - b, 17)
          [] op = ALUOp.AND -> BitAnd(a, b)
          [] op = ALUOp.OR -> BitOr(a, b)
          [] op = ALUOp.XOR -> BitXor(a, b)
          [] op = ALUOp.SLL -> Trunc(a * Pow2(shift_amt), 17)
          [] op = ALUOp.SRL -> a \div Pow2(shift_amt)
          [] op = ALUOp.SRA -> Trunc(sa \div Pow2(shift_amt), 17)
          [] op = ALUOp.MUL -> Slice(mul_result, 0, 16)
          [] op = ALUOp.MULH -> Slice(mul_result, 16, 32)
          [] op = ALUOp.DIV -> IF b # 0 THEN Trunc(FloorDiv(sa, sb), 17)
                                          ELSE 65535
          [] op = ALUOp.REM -> IF b # 0 THEN Trunc(FloorMod(sa, sb), 16) ELSE a
          [] op = ALUOp.PASS_A -> a
          [] op = ALUOp.PASS_B -> b
          [] op = ALUOp.NOT -> 65535 - b
          [] op = ALUOp.NEG -> Trunc(0 - sb, 17)
          [] OTHER -> 0

\* flag_v with the ADD rule used for SUB as well
AluOverflow_AddRule(a, b, op, result) ==
    IF op = ALUOp.ADD \/ op = ALUOp.SUB
    THEN (Bit(a, 15) = Bit(b, 15)) /\ (Bit(a, 15) # Bit(result, 15))
    ELSE FALSE

\* flag_v: second Switch(self.op)
AluOverflow(a, b, op, result) ==
    CASE op = ALUOp.ADD ->
            (Bit(a, 15) = Bit(b, 15)) /\ (Bit(a, 15) # Bit(result, 15))
      [] op = ALUOp.SUB ->
            (Bit(a, 15) # Bit(b, 15)) /\ (Bit(result, 15) # Bit(a, 15))
      [] OTHER -> FALSE

\* ALU.elaborate: result and the four flag outputs
ALU(a, b, op, shift_amt) ==
    LET result_wide == AluWide(a, b, op, shift_amt)
        result == Slice(result_wide, 0, 16)
    IN  [result |-> result,
         flag_n |-> Bit(result, 15),
         flag_z |-> BoolBit(result = 0),
         flag_c |-> Bit(result_wide, 16),
         flag_v |-> BoolBit(AluOverflow(a, b, op, result))]

\* Shifter.elaborate
Shifter(v, func, carry_in) ==
    CASE func = 0 -> [result |-> Trunc(v * 2, 16), carry_out |-> Bit(v, 15)]
      [] func = 1 -> [result |-> v \div 2, carry_out |-> Bit(v, 0)]
      [] func = 2 -> [result |-> Slice(v, 1, 16) + 32768 * Bit(v, 15),
                      carry_out |-> Bit(v, 0)]
      [] func = 3 -> [result |-> Bit(v, 15) + 2 * Slice(v, 0, 15),
                      carry_out |-> Bit(v, 15)]
      [] func = 4 -> [result |-> Slice(v, 1, 16) + 32768 * Bit(v, 0),
                      carry_out |-> Bit(v, 0)]
      [] func = 5 -> [result |-> carry_in + 2 * Slice(v, 0, 15),
                      carry_out |-> Bit(v, 15)]
      [] func = 6 -> [result |-> Slice(v, 1, 16) + 32768 * carry_in,
                      carry_out |-> Bit(v, 0)]
      [] func = 7 -> [result |-> Slice(v, 8, 16) + 256 * Slice(v, 0, 8),
                      carry_out |-> 0]
      [] func = 8 -> [result |-> Trunc(v * 16, 16), carry_out |-> Bit(v, 12)]
      [] func = 9 -> [result |-> v \div 16, carry_out |-> Bit(v, 3)]
      [] func = 10 -> [result |-> Trunc(AsSigned(v, 16) \div 16, 16),
                       carry_out |-> Bit(v, 3)]
      [] func = 11 -> [result |-> Trunc(v * 16, 16) + Slice(v, 12, 16),
                       carry_out |-> Bit(v, 12)]
      [] func = 12 -> [result |-> Trunc(v * 256, 16),
                       carry_out |-> Bit(v, 8)]
      [] func = 13 -> [result |-> v \div 256, carry_out |-> Bit(v, 7)]
      [] func = 14 -> [result |-> Trunc(AsSigned(v, 16) \div 256, 16),
                       carry_out |-> Bit(v, 7)]
      [] func = 15 -> [result |-> Trunc(v * 256, 16) + Slice(v, 8, 16),
                       carry_out |-> Bit(v, 8)]
      [] OTHER -> [result |-> v, carry_out |-> 0]

(***************************************************************************)
(* rtl/regfile.py                                                          *)
(***************************************************************************)
\* read port: address 0 returns 0, otherwise the stored value (no bypass)
RegRead(r, addr) == IF addr = 0 THEN 0 ELSE r[addr]

\* the write port without the wr_addr != 0 condition
RegWritePort_NoZeroGuard(r, wr_en, wr_addr, wr_data) ==
    IF wr_en THEN [r EXCEPT ![wr_addr] = wr_data] ELSE r

\* write port: main bank after the edge, before the EXX statements apply
RegWritePort(r, wr_en, wr_addr, wr_data) ==
    IF wr_en /\ wr_addr # 0 THEN [r EXCEPT ![wr_addr] = wr_data] ELSE r

\* EXX: main bank after the edge; the swap statements come after the write
\* statement in the source and take priority over it for R4..R11
RegExxMain(written, ra, exx) ==
    IF exx
    THEN [i \in 0..15 |-> IF i \in 4..11 THEN ra[i - 4] ELSE written[i]]
    ELSE written

\* EXX that copies the alternate bank into R4..R11 without saving them
RegExxAlt_NoSave(r, ra, exx) == ra

\* EXX: alternate bank after the edge
RegExxAlt(r, ra, exx) ==
    IF exx THEN [i \in 0..7 |-> r[i + 4]] ELSE ra

\* RegisterFile.elaborate: both banks after one clock edge
RegfileEdge(r, ra, wr_en, wr_addr, wr_data, exx) ==
    [regs |-> RegExxMain(RegWritePort(r, wr_en, wr_addr, wr_data), ra, exx),
     regs_alt |-> RegExxAlt(r, ra, exx)]

(***************************************************************************)
(* rtl/cpu.py: combinational signals                                       *)
(***************************************************************************)
\* the condition logic with the carry sense of BLTU/BGEU and of BHI/BLS
\* exchanged
BranchTaken_CarrySense(cond, f) ==
    LET flag_n == Bit(f, 7) = 1
        flag_z == Bit(f, 6) = 1
        flag_c == Bit(f, 5) = 1
        flag_v == Bit(f, 4) = 1
    IN  CASE cond \in {0, 1} -> flag_z = (cond = 0)
          [] cond \in {2, 3} -> (flag_n # flag_v) = (cond = 2)
          [] cond \in {4, 5} -> flag_c = (cond = 4)
          [] cond \in {6, 7} -> flag_n = (cond = 6)
          [] cond \in {8, 9} -> flag_v = (cond = 8)
          [] cond \in {10, 11} -> flag_c = (cond = 10)
          [] cond = 12 -> ~flag_z /\ (flag_n = flag_v)
          [] cond = 13 -> flag_z \/ (flag_n # flag_v)
          [] cond = 14 -> ~flag_c /\ ~flag_z
          [] cond = 15 -> flag_c \/ flag_z
          [] OTHER -> FALSE

\* branch_taken: Switch(decoder.branch_cond) over the bits of flags
BranchTaken(cond, f) ==
    LET flag_n == Bit(f, 7) = 1
        flag_z == Bit(f, 6) = 1
        flag_c == Bit(f, 5) = 1
        flag_v == Bit(f, 4) = 1
    IN  CASE cond = 0 -> flag_z
          [] cond = 1 -> ~flag_z
          [] cond = 2 -> flag_n # flag_v
          [] cond = 3 -> flag_n = flag_v
          [] cond = 4 -> ~flag_c
          [] cond = 5 -> flag_c
          [] cond = 6 -> flag_n
          [] cond = 7 -> ~flag_n
          [] cond = 8 -> flag_v
          [] cond = 9 -> ~flag_v
          [] cond = 10 -> flag_c
          [] cond = 11 -> ~flag_c
          [] cond = 12 -> ~flag_z /\ (flag_n = flag_v)
          [] cond = 13 -> flag_z \/ (flag_n # flag_v)
          [] cond = 14 -> flag_c /\ ~flag_z
          [] cond = 15 -> ~flag_c \/ flag_z
          [] OTHER -> FALSE

\* SampoCPU.__init__: reset_vector=0x0100
reset_vector == 256

\* decoder.instr is wired to the instruction register
decoder == Decode(instr)

\* regfile.rd_addr1: decoder.rs1 by default, re-steered to decoder.rd for
\* ALU_IMM (any state) and, in EXECUTE, by the STORE, IO-output and
\* extended-store branches; the later assignments take priority
rd_addr1 ==
    LET d == decoder
    IN  IF state = "EXECUTE"
           /\ \/ d.inst_type = InstType.STORE
              \/ d.inst_type = InstType.IO /\ ~d.is_io_in /\ d.is_io_out
              \/ d.inst_type = InstType.EXTENDED /\ d.mem_store
        THEN d.rd
        ELSE IF d.inst_type = InstType.ALU_IMM THEN d.rd ELSE d.rs1

\* rs1_data = regfile.rd_data1, rs2_data = regfile.rd_data2
rs1_data == RegRead(regs, rd_addr1)
rs2_data == RegRead(regs, decoder.rs2)

\* ALU input selection
alu_a == rs1_data
alu_b ==
    IF decoder.inst_type = InstType.ALU_IMM THEN decoder.imm8
    ELSE IF decoder.is_extended THEN instr_ext
    ELSE rs2_data

\* the ALU and shifter instances as wired in the engine (alu.shift_amt and
\* alu.carry_in are not driven and keep their reset value 0)
alu == ALU(alu_a, alu_b, decoder.alu_op, 0)
shifter == Shifter(rs1_data, decoder.shift_func, Bit(flags, 5))

branch_taken == BranchTaken(decoder.branch_cond, flags)

\* next PC calculation
pc_plus_2 == Trunc(pc + 2, 16)
pc_plus_4 == Trunc(pc + 4, 16)
\* the branch target without the scaling of the offset by 2
pc_branch_Unscaled == Trunc(pc + decoder.offset8, 16)
pc_branch == Trunc(pc + 2 * decoder.offset8, 16)
pc_jump == Trunc(pc + 2 * decoder.offset12, 16)

\* self.halted.eq(state == CPUState.HALTED)
halted == IF state = "HALTED" THEN 1 ELSE 0

\* flags[7], flags[6], flags[5], flags[4] assigned from the ALU flag
\* outputs; bits 3..0 keep their value
FlagsFromAlu(f, a) ==
    Slice(f, 0, 4) + 16 * a.flag_v + 32 * a.flag_c + 64 * a.flag_z
        + 128 * a.flag_n

\* a SHIFT case that also assigns flags[4], clearing V
FlagsFromShifter_ClearV(f, sh) ==
    Slice(f, 0, 4) + 32 * sh.carry_out + 64 * BoolBit(sh.result = 0)
        + 128 * Bit(sh.result, 15)

\* SHIFT: flags[5], flags[7], flags[6] assigned from the shifter; bit 4 and
\* bits 3..0 keep their value
FlagsFromShifter(f, sh) ==
    Slice(f, 0, 5) + 32 * sh.carry_out + 64 * BoolBit(sh.result = 0)
        + 128 * Bit(sh.result, 15)

(***************************************************************************)
(* rtl/cpu.py: the EXECUTE state.  Each operator takes the record e of     *)
(* the values the sequential signals get at the edge and returns it with   *)
(* the assignments of one Case applied; next is the FSM's next state and   *)
(* exx the pulse on the register file.                                     *)
(***************************************************************************)
\* values at the edge before the Switch(decoder.inst_type): every signal
\* holds, the FSM stays where it is, PC advances by 2 (4 if extended)
ExecDefault ==
    [next |-> "EXECUTE",
     pc |-> IF decoder.is_extended THEN pc_plus_4 ELSE pc_plus_2,
     flags |-> flags, alu_result |-> alu_result,
     mem_addr_reg |-> mem_addr_reg, mem_data_reg |-> mem_data_reg,
     int_enabled |-> int_enabled, exx |-> FALSE]

\* Case(ALU_REG), Case(ALU_IMM)
ExecAlu(e) ==
    [e EXCEPT !.alu_result = alu.result, !.flags = FlagsFromAlu(flags, alu),
              !.next = "WRITEBACK"]

\* Case(LOAD)
ExecLoad(e) == [e EXCEPT !.mem_addr_reg = rs1_data, !.next = "MEMORY"]

\* Case(STORE)
ExecStore(e) ==
    [e EXCEPT !.mem_addr_reg = rs1_data,
              !.mem_data_reg = RegRead(regs, rd_addr1), !.next = "MEMORY"]

\* Case(BRANCH)
ExecBranch(e) ==
    [e EXCEPT !.pc = IF branch_taken THEN pc_branch ELSE e.pc,
              !.next = "FETCH"]

\* Case(JUMP)
ExecJump(e) == [e EXCEPT !.pc = pc_jump, !.next = "FETCH"]

\* JUMP_REG that latches the address of the call itself as the link
ExecJumpReg_LinkPc(e) ==
    IF decoder.is_call
    THEN [e EXCEPT !.pc = rs1_data, !.alu_result = pc, !.next = "WRITEBACK"]
    ELSE [e EXCEPT !.pc = rs1_data, !.next = "FETCH"]

\* Case(JUMP_REG)
ExecJumpReg(e) ==
    IF decoder.is_call
    THEN [e EXCEPT !.pc = rs1_data, !.alu_result = pc_plus_2,
                   !.next = "WRITEBACK"]
    ELSE [e EXCEPT !.pc = rs1_data, !.next = "FETCH"]

\* Case(SHIFT)
ExecShift(e) ==
    [e EXCEPT !.alu_result = shifter.result,
              !.flags = FlagsFromShifter(flags, shifter),
              !.next = "WRITEBACK"]

\* a MULDIV case that traps (HALTED) on a zero divisor
ExecMulDiv_Trap(e) ==
    IF alu_b = 0 /\ decoder.alu_op \in {ALUOp.DIV, ALUOp.REM}
    THEN [e EXCEPT !.next = "HALTED"]
    ELSE [e EXCEPT !.alu_result = alu.result, !.next = "WRITEBACK"]

\* Case(MULDIV)
ExecMulDiv(e) == [e EXCEPT !.alu_result = alu.result, !.next = "WRITEBACK"]

\* a MISC case that pulses exx for every func without a branch of its own
ExecMisc_ExxOnOther(e) ==
    IF decoder.is_exx THEN [e EXCEPT !.exx = TRUE, !.next = "FETCH"]
    ELSE IF decoder.func = 2
    THEN [e EXCEPT !.flags = FlagsFromAlu(flags, alu), !.next = "FETCH"]
    ELSE IF decoder.func = 4
    THEN [e EXCEPT !.alu_result = rs1_data, !.next = "WRITEBACK"]
    ELSE [e EXCEPT !.exx = TRUE, !.next = "FETCH"]

\* Case(MISC)
ExecMisc(e) ==
    IF decoder.is_exx THEN [e EXCEPT !.exx = TRUE, !.next = "FETCH"]
    ELSE IF decoder.func = 2
    THEN [e EXCEPT !.flags = FlagsFromAlu(flags, alu), !.next = "FETCH"]
    ELSE IF decoder.func = 4
    THEN [e EXCEPT !.alu_result = rs1_data, !.next = "WRITEBACK"]
    ELSE [e EXCEPT !.next = "FETCH"]

\* an IO case whose output branch does not leave EXECUTE
ExecIO_OutStays(e, io_rdata) ==
    IF decoder.is_io_in
    THEN [e EXCEPT !.alu_result = io_rdata, !.next = "WRITEBACK"]
    ELSE e

\* Case(IO): neither branch taken leaves m.next unassigned
ExecIO(e, io_rdata) ==
    IF decoder.is_io_in
    THEN [e EXCEPT !.alu_result = io_rdata, !.next = "WRITEBACK"]
    ELSE IF decoder.is_io_out THEN [e EXCEPT !.next = "FETCH"]
    ELSE e

\* Case(SYSTEM)
ExecSystem(e) ==
    IF decoder.is_halt THEN [e EXCEPT !.next = "HALTED"]
    ELSE IF decoder.is_ei THEN [e EXCEPT !.int_enabled = 1, !.next = "FETCH"]
    ELSE IF decoder.is_di THEN [e EXCEPT !.int_enabled = 0, !.next = "FETCH"]
    ELSE [e EXCEPT !.next = "FETCH"]

\* Case(EXTENDED)
ExecExtended(e, io_rdata) ==
    IF decoder.mem_load \/ decoder.mem_store
    THEN [e EXCEPT !.mem_addr_reg = Trunc(rs1_data + instr_ext, 16),
                   !.mem_data_reg = IF decoder.mem_store
                                    THEN RegRead(regs, rd_addr1)
                                    ELSE e.mem_data_reg,
                   !.next = "MEMORY"]
    ELSE IF decoder.is_jump
    THEN IF decoder.is_call
         THEN [e EXCEPT !.pc = instr_ext, !.alu_result = pc_plus_4,
                        !.next = "WRITEBACK"]
         ELSE [e EXCEPT !.pc = instr_ext, !.next = "FETCH"]
    ELSE IF decoder.func = 7
    THEN [e EXCEPT !.alu_result = instr_ext, !.next = "WRITEBACK"]
    ELSE IF decoder.is_io_in
    THEN [e EXCEPT !.alu_result = io_rdata, !.next = "WRITEBACK"]
    ELSE IF decoder.is_io_out THEN [e EXCEPT !.next = "FETCH"]
    ELSE [e EXCEPT !.alu_result = alu.result,
                   !.flags = FlagsFromAlu(flags, alu), !.next = "WRITEBACK"]

\* Switch(decoder.inst_type) of the EXECUTE state
ExecuteStep(io_rdata) ==
    LET e == ExecDefault
        t == decoder.inst_type
    IN  CASE t = InstType.ALU_REG \/ t = InstType.ALU_IMM -> ExecAlu(e)
          [] t = InstType.LOAD -> ExecLoad(e)
          [] t = InstType.STORE -> ExecStore(e)
          [] t = InstType.BRANCH -> ExecBranch(e)
          [] t = InstType.JUMP -> ExecJump(e)
          [] t = InstType.JUMP_REG -> ExecJumpReg(e)
          [] t = InstType.SHIFT -> ExecShift(e)
          [] t = InstType.MULDIV -> ExecMulDiv(e)
          [] t = InstType.MISC -> ExecMisc(e)
          [] t = InstType.IO -> ExecIO(e, io_rdata)
          [] t = InstType.SYSTEM -> ExecSystem(e)
          [] t = InstType.EXTENDED -> ExecExtended(e, io_rdata)
          [] OTHER -> [e EXCEPT !.next = "FETCH"]

\* the cycles increment at the end of the EXECUTE state (the wrap of the
\* 32-bit counter lies beyond the explored bound)
CyclesNext(c) == c + 1

\* MEMORY state, load data extraction.  byte_data is bound by two Python
\* assignments executed one after the other while the module is built, so
\* the If(mem_addr_reg[0]) selects nothing and the low byte is always used.
LoadData(mem_rdata) ==
    IF decoder.mem_byte
    THEN LET byte_data == Slice(mem_rdata, 0, 8)
         IN  IF decoder.mem_signed
             THEN Trunc(AsSigned(byte_data, 8), 16)
             ELSE byte_data
    ELSE mem_rdata

\* MEMORY state: next FSM state when mem_ready is observed
MemoryNext == IF decoder.mem_load THEN "WRITEBACK" ELSE "FETCH"

\* WRITEBACK state: regfile.wr_en
wb_wr_en == decoder.reg_write

(***************************************************************************)
(* rtl/cpu.py: the memory and I/O interface outputs, combinational.        *)
(***************************************************************************)
\* mem_addr: pc in FETCH, pc + 2 in FETCH_EXT, the address latch in MEMORY
mem_addr ==
    CASE state = "FETCH" -> pc
      [] state = "FETCH_EXT" -> Trunc(pc + 2, 16)
      [] state = "MEMORY" -> mem_addr_reg
      [] OTHER -> 0

mem_valid == IF state \in {"FETCH", "FETCH_EXT", "MEMORY"} THEN 1 ELSE 0

\* a byte store at an odd address that drives the data latch unshifted
MemStoreBus_NoShift(store, byte, addr_reg, data_reg) ==
    IF ~store THEN [mem_wdata |-> 0, mem_we |-> 0, mem_be |-> 3]
    ELSE IF ~byte THEN [mem_wdata |-> data_reg, mem_we |-> 1, mem_be |-> 3]
    ELSE IF Bit(addr_reg, 0) = 1
    THEN [mem_wdata |-> data_reg, mem_we |-> 1, mem_be |-> 2]
    ELSE [mem_wdata |-> data_reg, mem_we |-> 1, mem_be |-> 1]

\* MEMORY state: mem_wdata, mem_we and mem_be from decoder.mem_store,
\* decoder.mem_byte and the two latches
MemStoreBus(store, byte, addr_reg, data_reg) ==
    IF ~store THEN [mem_wdata |-> 0, mem_we |-> 0, mem_be |-> 3]
    ELSE IF ~byte THEN [mem_wdata |-> data_reg, mem_we |-> 1, mem_be |-> 3]
    ELSE IF Bit(addr_reg, 0) = 1
    THEN [mem_wdata |-> Trunc(data_reg * 256, 16), mem_we |-> 1,
          mem_be |-> 2]
    ELSE [mem_wdata |-> data_reg, mem_we |-> 1, mem_be |-> 1]

\* a write bus driven from the decoder in every state, not only in MEMORY
mem_bus_AnyState ==
    MemStoreBus(decoder.mem_store, decoder.mem_byte, mem_addr_reg,
                mem_data_reg)

\* mem_wdata, mem_we, mem_be of the engine: the defaults outside MEMORY
mem_bus ==
    IF state = "MEMORY"
    THEN MemStoreBus(decoder.mem_store, decoder.mem_byte, mem_addr_reg,
                     mem_data_reg)
    ELSE [mem_wdata |-> 0, mem_we |-> 0, mem_be |-> 3]

\* io_addr, io_wdata, io_rd, io_wr: driven only in EXECUTE by the IO case
\* and by the INX / OUTX branches of the EXTENDED case
IoIdle == [io_addr |-> 0, io_wdata |-> 0, io_rd |-> 0, io_wr |-> 0]

io_bus ==
    IF state # "EXECUTE" THEN IoIdle
    ELSE IF decoder.inst_type = InstType.IO
    THEN IF decoder.is_io_in
         THEN [IoIdle EXCEPT
                 !.io_addr = IF decoder.io_port_imm THEN decoder.rs1
                             ELSE Slice(rs1_data, 0, 8),
                 !.io_rd = 1]
         ELSE IF decoder.is_io_out
         THEN [IoIdle EXCEPT
                 !.io_addr = IF decoder.io_port_imm THEN decoder.rs1
                             ELSE Slice(RegRead(regs, rd_addr1), 0, 8),
                 !.io_wdata = Slice(RegRead(regs, rd_addr1), 0, 8),
                 !.io_wr = 1]
         ELSE IoIdle
    ELSE IF decoder.inst_type = InstType.EXTENDED
            /\ ~(decoder.mem_load \/ decoder.mem_store)
            /\ ~decoder.is_jump /\ decoder.func # 7
    THEN IF decoder.is_io_in
         THEN [IoIdle EXCEPT !.io_addr = Slice(instr_ext, 0, 8), !.io_rd = 1]
         ELSE IF decoder.is_io_out
         THEN [IoIdle EXCEPT !.io_addr = Slice(instr_ext, 0, 8),
                             !.io_wdata = Slice(rs1_data, 0, 8),
                             !.io_wr = 1]
         ELSE IoIdle
    ELSE IoIdle

\* regfile.wr_en and regfile.exx: 0 by default, wr_en driven in WRITEBACK
\* under decoder.reg_write, exx driven in EXECUTE by the EXX branch of the
\* MISC case
regfile_wr_en == state = "WRITEBACK" /\ decoder.reg_write
regfile_exx ==
    state = "EXECUTE" /\ decoder.inst_type = InstType.MISC /\ decoder.is_exx

(***************************************************************************)
(* rtl/soc.py: RAM.  ram maps a word address to its 16-bit content.        *)
(***************************************************************************)
\* one clock edge of the write port: word_addr = addr[1:16], byte lane k is
\* written when we and be[k]
RamWrite(ram, addr, wdata, we, be) ==
    LET word_addr == addr \div 2
        old == ram[word_addr]
        lo == IF we = 1 /\ Bit(be, 0) = 1 THEN Slice(wdata, 0, 8)
              ELSE Slice(old, 0, 8)
        hi == IF we = 1 /\ Bit(be, 1) = 1 THEN Slice(wdata, 8, 16)
              ELSE Slice(old, 8, 16)
    IN  [ram EXCEPT ![word_addr] = lo + 256 * hi]

\* the read port: the word at addr[1:16]
RamRead(ram, addr) == ram[addr \div 2]

\* the RAM of the SoC, size 65536.  r is the record of its state: the
\* memory array mem, the registered ready and the word address latched by
\* the synchronous read port.  mem lists the words that were initialised or
\* written; every other word holds the 0 that _init_words pads with
RamWord(mem, w) == IF w \in DOMAIN mem THEN mem[w] ELSE 0

RamInit(init) == [mem |-> init, ready |-> 0, rd_addr |-> 0]

\* the engine without a RAM attached
RamDetached == RamInit(<< >>)

\* one clock edge of the RAM: the write port commits the enabled byte
\* lanes, the read port latches the word address, ready takes valid
RamEdge(r, addr, wdata, we, be, valid) ==
    LET word_addr == addr \div 2
        full == [w \in DOMAIN r.mem \cup {word_addr} |-> RamWord(r.mem, w)]
    IN  [mem |-> IF we = 1 THEN RamWrite(full, addr, wdata, we, be)
                 ELSE r.mem,
         ready |-> valid,
         rd_addr |-> word_addr]

\* rdata: the word at the latched address; the read port is transparent
\* to the write of the same edge
RamRdata(r) == RamWord(r.mem, r.rd_addr)

(***************************************************************************)
(* rtl/soc.py: UART.  u is the record of its four registers.               *)
(***************************************************************************)
UartInit == [tx_buf |-> 0, tx_pending |-> 0, rx_buf |-> 0, rx_ready_int |-> 0]

\* status register: bit 0 = RX ready, bit 1 = TX ready
UartStatus(u) == u.rx_ready_int + 2 * (1 - u.tx_pending)

\* rdata, combinational: driven only while rd is asserted
UartRdata(u, addr, rd) ==
    IF rd # 1 THEN 0
    ELSE CASE addr = 128 -> UartStatus(u)
           [] addr = 129 -> u.rx_buf
           [] OTHER -> 0

\* a tx_pending that the consumer's handshake never clears
UartTxPendingNext_NoClear(u, addr, wr, tx_ready) ==
    IF wr = 1 /\ addr = 129 THEN 1 ELSE u.tx_pending

\* tx_pending after the edge: set by a write to the data port, cleared by
\* If(tx_ready & tx_pending), which is the later statement and wins
UartTxPendingNext(u, addr, wr, tx_ready) ==
    IF tx_ready = 1 /\ u.tx_pending = 1 THEN 0
    ELSE IF wr = 1 /\ addr = 129 THEN 1
    ELSE u.tx_pending

\* one clock edge of the UART
UartEdge(u, addr, wdata, rd, wr, tx_ready, rx_valid, rx_data) ==
    [tx_buf |-> IF wr = 1 /\ addr = 129 THEN wdata ELSE u.tx_buf,
     tx_pending |-> UartTxPendingNext(u, addr, wr, tx_ready),
     rx_buf |-> IF rx_valid = 1 /\ u.rx_ready_int = 0 THEN rx_data
                ELSE u.rx_buf,
     rx_ready_int |-> IF rx_valid = 1 /\ u.rx_ready_int = 0 THEN 1
                      ELSE IF rd = 1 /\ addr = 129 THEN 0
                      ELSE u.rx_ready_int]

\* tx_data, tx_valid and rx_ready outputs
tx_data == uart.tx_buf
tx_valid == uart.tx_pending
rx_ready == 1 - uart.rx_ready_int

(***************************************************************************)
(* Bounds and input sets.                                                  *)
(***************************************************************************)
\* number of EXECUTE cycles explored from reset
MaxCycles == 3

\* instruction words the memory returns in FETCH
InstrWords ==
    { 20532,    \* 0x5034 ADDI R0, 0x34
      20737,    \* 0x5101 ADDI R1, 1
      5137,     \* 0x1411 SUB  R4, R1, R1
      25616,    \* 0x6410 LW   R4, [R1]
      25617,    \* 0x6411 LB   R4, [R1]
      25752,    \* 0x6498 LUI  R4 (func 8, immediate byte 0x98)
      29712,    \* 0x7410 SW   [R1], R4
      32771,    \* 0x8003 BEQ  +3
      33277,    \* 0x81FD BNE  -3
      36868,    \* 0x9004 J    +4
      40784,    \* 0x9F50 JR   R5
      38161,    \* 0x9511 JALR R5, R1
      42000,    \* 0xA410 SLL1 R4, R1
      46098,    \* 0xB412 MULHU R4, R1 (func 2)
      46099,    \* 0xB413 DIV  R4, R1
      46101,    \* 0xB415 REM  R4, R1
      46104,    \* 0xB418 MULDIV func 8 (no decode case)
      49172,    \* 0xC014 MOV  R0, R1
      50196,    \* 0xC414 MOV  R4, R1
      49163,    \* 0xC00B EXX
      49170,    \* 0xC012 CMP  R1
      49426,    \* 0xC112 CMP  R1, R1
      49427,    \* 0xC113 TEST R1, R1
      54288,    \* 0xD410 INI  R4, port 1
      54291,    \* 0xD413 OUT
      53252,    \* 0xD004 IO func 4 (no decode case)
      57344,    \* 0xE000 NOP
      57600,    \* 0xE100 HALT
      58112,    \* 0xE300 EI
      61703,    \* 0xF107 LIX  R1, imm16
      61466,    \* 0xF01A CMPIX R1, imm16
      62485,    \* 0xF415 LWX  R4, [R1 + imm16]
      62486,    \* 0xF416 SWX  [R1 + imm16], R4
      62729,    \* 0xF509 JALX R5, imm16
      61448,    \* 0xF008 JX   imm16
      62492     \* 0xF41C OUTX R4, R1, imm16
    }

\* words the memory returns for an extended word or a data load
DataWords == { 257, 65408 }      \* 0x0101, 0xFF80

\* bytes the I/O bus returns
IoBytes == { 165 }               \* 0xA5

\* depth in words of the RAM instance the store bus is checked against
RamWords == 2

(***************************************************************************)
(* rtl/cpu.py: the FSM, one action per state.  W is the set of words the   *)
(* memory may return, cap bounds the cycles counter.                       *)
(***************************************************************************)
ZeroRegs == [i \in 0..15 |-> 0]
ZeroAlt == [i \in 0..7 |-> 0]

\* reset values of the engine's and the register file's signals
CpuInit ==
    /\ state = "RESET"
    /\ pc = reset_vector
    /\ flags = 0
    /\ cycles = 0
    /\ instr = 0
    /\ instr_ext = 0
    /\ alu_result = 0
    /\ mem_addr_reg = 0
    /\ mem_data_reg = 0
    /\ int_enabled = 0
    /\ regs = ZeroRegs
    /\ regs_alt = ZeroAlt
    /\ mem_ready = FALSE

\* testbench records before anything is driven
RfTbInit ==
    [rd_addr1 |-> 0, rd_addr2 |-> 0, wr_addr |-> 0, wr_data |-> 0,
     wr_en |-> FALSE, exx |-> FALSE, rd_data1 |-> 0, rd_data2 |-> 0]
AluTbInit ==
    [a |-> 0, b |-> 0, op |-> 0, shift_amt |-> 0, settled |-> FALSE,
     out |-> [result |-> 0, flag_n |-> 0, flag_z |-> 0, flag_c |-> 0,
              flag_v |-> 0]]
BtTbInit ==
    [branch_cond |-> 0, flags |-> 0, settled |-> FALSE,
     branch_taken |-> FALSE]
UartTbInit ==
    [addr |-> 0, wdata |-> 0, rd |-> 0, wr |-> 0, tx_ready |-> 0,
     rx_valid |-> 0, rx_data |-> 0, written |-> << >>, presented |-> << >>]
ShTbInit ==
    [value |-> 0, func |-> 0, carry_in |-> 0, settled |-> FALSE,
     out |-> [result |-> 0, carry_out |-> 0]]
StTbInit ==
    [mem_store |-> FALSE, mem_byte |-> FALSE, mem_addr_reg |-> 0,
     mem_data_reg |-> 0, ram0 |-> [w \in 0..(RamWords - 1) |-> 0],
     ram |-> [w \in 0..(RamWords - 1) |-> 0], phase |-> "idle",
     bus |-> [mem_wdata |-> 0, mem_we |-> 0, mem_be |-> 3], rdata |-> 0]

Init ==
    /\ CpuInit
    /\ rf_tb = RfTbInit
    /\ alu_tb = AluTbInit
    /\ bt_tb = BtTbInit
    /\ st_tb = StTbInit
    /\ sh_tb = ShTbInit
    /\ uart = UartInit
    /\ uart_tb = UartTbInit
    /\ soc_ram = RamDetached

\* a RESET state that leaves for DECODE without a fetch
Reset_SkipFetch ==
    /\ state = "RESET"
    /\ pc' = reset_vector
    /\ flags' = 0
    /\ int_enabled' = 0
    /\ cycles' = 0
    /\ state' = "DECODE"
    /\ UNCHANGED <<instr, instr_ext, alu_result, mem_addr_reg, mem_data_reg,
                   regs, regs_alt, rf_tb, alu_tb, bt_tb, st_tb, sh_tb, mem_ready>>

\* State(RESET)
Reset ==
    /\ state = "RESET"
    /\ pc' = reset_vector
    /\ flags' = 0
    /\ int_enabled' = 0
    /\ cycles' = 0
    /\ state' = "FETCH"
    /\ UNCHANGED <<instr, instr_ext, alu_result, mem_addr_reg, mem_data_reg,
                   regs, regs_alt, rf_tb, alu_tb, bt_tb, st_tb, sh_tb, mem_ready>>

\* State(FETCH)
Fetch(W, cap) ==
    /\ state = "FETCH"
    /\ cycles < cap
    /\ \E rdy \in BOOLEAN, mem_rdata \in W :
          /\ mem_ready' = rdy
          /\ IF rdy
             THEN instr' = mem_rdata /\ state' = "DECODE"
             ELSE UNCHANGED <<instr, state>>
    /\ UNCHANGED <<pc, flags, cycles, instr_ext, alu_result, mem_addr_reg,
                   mem_data_reg, int_enabled, regs, regs_alt,
                   rf_tb, alu_tb, bt_tb, st_tb, sh_tb>>

\* State(DECODE)
DecodeState ==
    /\ state = "DECODE"
    /\ state' = IF decoder.is_extended THEN "FETCH_EXT" ELSE "EXECUTE"
    /\ UNCHANGED <<pc, flags, cycles, instr, instr_ext, alu_result,
                   mem_addr_reg, mem_data_reg, int_enabled, regs, regs_alt,
                   rf_tb, alu_tb, bt_tb, st_tb, sh_tb, mem_ready>>

\* State(FETCH_EXT)
FetchExt(W) ==
    /\ state = "FETCH_EXT"
    /\ \E rdy \in BOOLEAN, mem_rdata \in W :
          /\ mem_ready' = rdy
          /\ IF rdy
             THEN instr_ext' = mem_rdata /\ state' = "EXECUTE"
             ELSE UNCHANGED <<instr_ext, state>>
    /\ UNCHANGED <<pc, flags, cycles, instr, alu_result, mem_addr_reg,
                   mem_data_reg, int_enabled, regs, regs_alt,
                   rf_tb, alu_tb, bt_tb, st_tb, sh_tb>>

\* State(EXECUTE), io_rdata drawn from the set I
ExecuteIn(I, cap) ==
    /\ state = "EXECUTE"
    /\ cycles < cap
    /\ \E io_rdata \in I :
       \E e \in {ExecuteStep(io_rdata)} :
       \E rf \in {RegfileEdge(regs, regs_alt, FALSE, 0, 0, e.exx)} :
              /\ state' = e.next
              /\ pc' = e.pc
              /\ flags' = e.flags
              /\ alu_result' = e.alu_result
              /\ mem_addr_reg' = e.mem_addr_reg
              /\ mem_data_reg' = e.mem_data_reg
              /\ int_enabled' = e.int_enabled
              /\ regs' = rf.regs
              /\ regs_alt' = rf.regs_alt
    /\ cycles' = CyclesNext(cycles)
    /\ UNCHANGED <<instr, instr_ext, rf_tb, alu_tb, bt_tb, st_tb, sh_tb, mem_ready>>

\* State(EXECUTE) with the I/O bus returning one of IoBytes
Execute(cap) == ExecuteIn(IoBytes, cap)

\* a MEMORY state that does not wait for mem_ready
Memory_NoWait(W) ==
    /\ state = "MEMORY"
    /\ \E rdy \in BOOLEAN, mem_rdata \in W :
          /\ mem_ready' = rdy
          /\ alu_result' = IF decoder.mem_load THEN LoadData(mem_rdata)
                           ELSE alu_result
          /\ state' = MemoryNext
    /\ UNCHANGED <<pc, flags, cycles, instr, instr_ext, mem_addr_reg,
                   mem_data_reg, int_enabled, regs, regs_alt,
                   rf_tb, alu_tb, bt_tb, st_tb, sh_tb>>

\* State(MEMORY)
Memory(W) ==
    /\ state = "MEMORY"
    /\ \E rdy \in BOOLEAN, mem_rdata \in W :
          /\ mem_ready' = rdy
          /\ IF rdy
             THEN /\ alu_result' = IF decoder.mem_load
                                   THEN LoadData(mem_rdata)
                                   ELSE alu_result
                  /\ state' = MemoryNext
             ELSE UNCHANGED <<alu_result, state>>
    /\ UNCHANGED <<pc, flags, cycles, instr, instr_ext, mem_addr_reg,
                   mem_data_reg, int_enabled, regs, regs_alt,
                   rf_tb, alu_tb, bt_tb, st_tb, sh_tb>>

\* State(WRITEBACK)
Writeback ==
    /\ state = "WRITEBACK"
    /\ LET rf == RegfileEdge(regs, regs_alt, wb_wr_en, decoder.rd,
                             alu_result, FALSE)
       IN  regs' = rf.regs /\ regs_alt' = rf.regs_alt
    /\ state' = "FETCH"
    /\ UNCHANGED <<pc, flags, cycles, instr, instr_ext, alu_result,
                   mem_addr_reg, mem_data_reg, int_enabled,
                   rf_tb, alu_tb, bt_tb, st_tb, sh_tb, mem_ready>>

\* a HALTED state that resumes fetching
Halted_Resume ==
    /\ state = "HALTED"
    /\ state' = "FETCH"
    /\ UNCHANGED <<pc, flags, cycles, instr, instr_ext, alu_result,
                   mem_addr_reg, mem_data_reg, int_enabled, regs, regs_alt,
                   rf_tb, alu_tb, bt_tb, st_tb, sh_tb, mem_ready>>

\* State(HALTED)
Halted ==
    /\ state = "HALTED"
    /\ UNCHANGED <<cpuVars, rfVars, tbVars, mem_ready>>

\* the engine alone: memory and I/O are the environment, no UART attached
Next ==
    \/ Reset /\ UNCHANGED socVars
    \/ Fetch(InstrWords, MaxCycles) /\ UNCHANGED socVars
    \/ DecodeState /\ UNCHANGED socVars
    \/ FetchExt(DataWords) /\ UNCHANGED socVars
    \/ Execute(MaxCycles) /\ UNCHANGED socVars
    \/ Memory(DataWords) /\ UNCHANGED socVars
    \/ Writeback /\ UNCHANGED socVars
    \/ Halted /\ UNCHANGED socVars

Spec == Init /\ [][Next]_vars

(***************************************************************************)
(* Component testbenches (rtl/test_cpu.py): the register file, the ALU and *)
(* the branch condition logic driven directly on their ports.              *)
(***************************************************************************)
RfAddrs == { 0, 4, 12 }
RfData == { 4660, 65535 }        \* 0x1234, 0xFFFF as in test_regfile
AluVals == { 0, 1, 2, 50, 100, 32767, 32768, 32769, 65280, 4080, 65529,
             65535 }
ShiftAmts == { 0, 1, 4, 15 }

\* one clock of test_regfile's testbench: the ports are driven, the read
\* data of the cycle is observed, the edge updates the banks
RfTick ==
    /\ \E a1 \in RfAddrs, a2 \in RfAddrs, wa \in RfAddrs, wd \in RfData,
          we \in BOOLEAN, x \in BOOLEAN :
          LET rf == RegfileEdge(regs, regs_alt, we, wa, wd, x)
          IN  /\ regs' = rf.regs
              /\ regs_alt' = rf.regs_alt
              /\ rf_tb' = [rd_addr1 |-> a1, rd_addr2 |-> a2, wr_addr |-> wa,
                           wr_data |-> wd, wr_en |-> we, exx |-> x,
                           rd_data1 |-> RegRead(regs, a1),
                           rd_data2 |-> RegRead(regs, a2)]
    /\ UNCHANGED <<state, pc, flags, cycles, instr, instr_ext, alu_result,
                   mem_addr_reg, mem_data_reg, int_enabled, alu_tb, bt_tb,
                   st_tb, sh_tb,
                   mem_ready, uart, uart_tb, soc_ram>>

NextRF == RfTick
SpecRF == Init /\ [][NextRF]_vars

\* test_alu's testbench: a, b and op (and shift_amt) are driven ...
InitALU ==
    /\ CpuInit
    /\ rf_tb = RfTbInit
    /\ bt_tb = BtTbInit
    /\ st_tb = StTbInit
    /\ sh_tb = ShTbInit
    /\ uart = UartInit
    /\ uart_tb = UartTbInit
    /\ soc_ram = RamDetached
    /\ \E a \in AluVals, b \in AluVals, op \in 0..15, sh \in ShiftAmts :
          alu_tb = [AluTbInit EXCEPT !.a = a, !.b = b, !.op = op,
                                     !.shift_amt = sh]

\* ... and after the outputs settle they are read
AluEval ==
    /\ ~alu_tb.settled
    /\ alu_tb' = [alu_tb EXCEPT
                    !.out = ALU(alu_tb.a, alu_tb.b, alu_tb.op,
                                alu_tb.shift_amt),
                    !.settled = TRUE]
    /\ UNCHANGED <<state, pc, flags, cycles, instr, instr_ext, alu_result,
                   mem_addr_reg, mem_data_reg, int_enabled, regs, regs_alt,
                   rf_tb, bt_tb, st_tb, sh_tb,
                   mem_ready, uart, uart_tb, soc_ram>>

NextALU == AluEval
SpecALU == InitALU /\ [][NextALU]_vars

\* the branch condition logic on a driven condition code and FLAGS value
InitBT ==
    /\ CpuInit
    /\ rf_tb = RfTbInit
    /\ alu_tb = AluTbInit
    /\ st_tb = StTbInit
    /\ sh_tb = ShTbInit
    /\ uart = UartInit
    /\ uart_tb = UartTbInit
    /\ soc_ram = RamDetached
    /\ \E c \in 0..15, f \in 0..255 :
          bt_tb = [BtTbInit EXCEPT !.branch_cond = c, !.flags = f]

BranchEval ==
    /\ ~bt_tb.settled
    /\ bt_tb' = [bt_tb EXCEPT
                   !.branch_taken = BranchTaken(bt_tb.branch_cond,
                                                bt_tb.flags),
                   !.settled = TRUE]
    /\ UNCHANGED <<state, pc, flags, cycles, instr, instr_ext, alu_result,
                   mem_addr_reg, mem_data_reg, int_enabled, regs, regs_alt,
                   rf_tb, alu_tb, st_tb, sh_tb,
                   mem_ready, uart, uart_tb, soc_ram>>

NextBT == BranchEval
SpecBT == InitBT /\ [][NextBT]_vars

\* the store path of the MEMORY state against the RAM: the latches and the
\* decoder's mem_store / mem_byte are driven, the RAM holds arbitrary words
StData == { 4660, 43981, 128 }   \* 0x1234, 0xABCD, 0x0080
StWords == { 23205, 65408 }      \* 0x5AA5, 0xFF80

InitST ==
    /\ CpuInit
    /\ rf_tb = RfTbInit
    /\ alu_tb = AluTbInit
    /\ bt_tb = BtTbInit
    /\ sh_tb = ShTbInit
    /\ uart = UartInit
    /\ uart_tb = UartTbInit
    /\ soc_ram = RamDetached
    /\ \E st \in BOOLEAN, by \in BOOLEAN, a \in 0..(2 * RamWords - 1),
          d \in StData, r \in [0..(RamWords - 1) -> StWords] :
          st_tb = [StTbInit EXCEPT !.mem_store = st, !.mem_byte = by,
                                   !.mem_addr_reg = a, !.mem_data_reg = d,
                                   !.ram0 = r, !.ram = r]

\* the clock edge of a MEMORY cycle: the RAM's write port takes the bus
StStore ==
    /\ st_tb.phase = "idle"
    /\ \E bus \in {MemStoreBus(st_tb.mem_store, st_tb.mem_byte,
                                st_tb.mem_addr_reg, st_tb.mem_data_reg)} :
          st_tb' = [st_tb EXCEPT
                      !.bus = bus,
                      !.ram = RamWrite(st_tb.ram, st_tb.mem_addr_reg,
                                       bus.mem_wdata, bus.mem_we, bus.mem_be),
                      !.phase = "stored"]
    /\ UNCHANGED <<state, pc, flags, cycles, instr, instr_ext, alu_result,
                   mem_addr_reg, mem_data_reg, int_enabled, regs, regs_alt,
                   rf_tb, alu_tb, bt_tb, sh_tb,
                   mem_ready, uart, uart_tb, soc_ram>>

\* a later word load from the same address
StLoad ==
    /\ st_tb.phase = "stored"
    /\ st_tb' = [st_tb EXCEPT
                   !.rdata = RamRead(st_tb.ram, st_tb.mem_addr_reg),
                   !.phase = "loaded"]
    /\ UNCHANGED <<state, pc, flags, cycles, instr, instr_ext, alu_result,
                   mem_addr_reg, mem_data_reg, int_enabled, regs, regs_alt,
                   rf_tb, alu_tb, bt_tb, sh_tb,
                   mem_ready, uart, uart_tb, soc_ram>>

NextST == StStore \/ StLoad
SpecST == InitST /\ [][NextST]_vars

\* the UART driven directly on its ports
UartAddrs == { 1, 128, 129 }     \* another port, status 0x80, data 0x81
UartBytes == { 65, 66 }          \* 'A', 'B'

\* one clock of the UART driven directly on its ports
UartTick ==
    /\ \E a \in UartAddrs, wd \in UartBytes, r \in {0, 1}, w \in {0, 1},
          tr \in {0, 1}, rv \in {0, 1}, rxd \in UartBytes :
          /\ uart' = UartEdge(uart, a, wd, r, w, tr, rv, rxd)
          /\ uart_tb' = [uart_tb EXCEPT !.addr = a, !.wdata = wd, !.rd = r,
                                        !.wr = w, !.tx_ready = tr,
                                        !.rx_valid = rv, !.rx_data = rxd]
    /\ UNCHANGED <<cpuVars, rfVars, tbVars, mem_ready, soc_ram>>

NextUART == UartTick
SpecUART == Init /\ [][NextUART]_vars

\* the SoC of test_hello_world on its I/O side: the engine's I/O bus is
\* wired to the UART, the consumer holds tx_ready = 1 and records every
\* byte it sees with tx_valid = 1; nothing is sent to the RX side.  The
\* program is any sequence of TxInstrWords.
\* the Shifter driven on its ports: walking ones, walking zeros and a few
\* mixed patterns on value, every func, both values of carry_in
ShVals ==
    {Pow2(k) : k \in 0..15} \cup {65535 - Pow2(k) : k \in 0..15}
        \cup {0, 65535, 4660, 32769, 42405, 23130, 255, 65280, 33153}

InitSH ==
    /\ CpuInit
    /\ rf_tb = RfTbInit
    /\ alu_tb = AluTbInit
    /\ bt_tb = BtTbInit
    /\ st_tb = StTbInit
    /\ uart = UartInit
    /\ uart_tb = UartTbInit
    /\ soc_ram = RamDetached
    /\ \E v \in ShVals, f \in 0..15, c \in {0, 1} :
          sh_tb = [ShTbInit EXCEPT !.value = v, !.func = f, !.carry_in = c]

\* a Shifter that shifts in zeros for SRA1
ShEval_Sra1Logical ==
    /\ ~sh_tb.settled
    /\ sh_tb' = [sh_tb EXCEPT
                   !.out = Shifter(sh_tb.value,
                                   IF sh_tb.func = 2 THEN 1 ELSE sh_tb.func,
                                   sh_tb.carry_in),
                   !.settled = TRUE]
    /\ UNCHANGED <<cpuVars, rfVars, rf_tb, alu_tb, bt_tb, st_tb, mem_ready,
                   uart, uart_tb, soc_ram>>

\* the outputs settle and are read
ShEval ==
    /\ ~sh_tb.settled
    /\ sh_tb' = [sh_tb EXCEPT
                   !.out = Shifter(sh_tb.value, sh_tb.func, sh_tb.carry_in),
                   !.settled = TRUE]
    /\ UNCHANGED <<cpuVars, rfVars, rf_tb, alu_tb, bt_tb, st_tb, mem_ready,
                   uart, uart_tb, soc_ram>>

NextSH == ShEval
SpecSH == InitSH /\ [][NextSH]_vars

\* the engine in DECODE of the first instruction, every word of primary
\* opcode 0x9 in the instruction register
JumpWords == 36864..40959        \* 0x9000..0x9FFF

InitJ ==
    /\ state = "DECODE"
    /\ instr \in JumpWords
    /\ mem_ready = TRUE
    /\ pc = reset_vector
    /\ flags = 0
    /\ cycles = 0
    /\ instr_ext = 0
    /\ alu_result = 0
    /\ mem_addr_reg = 0
    /\ mem_data_reg = 0
    /\ int_enabled = 0
    /\ regs = ZeroRegs
    /\ regs_alt = ZeroAlt
    /\ rf_tb = RfTbInit
    /\ alu_tb = AluTbInit
    /\ bt_tb = BtTbInit
    /\ st_tb = StTbInit
    /\ sh_tb = ShTbInit
    /\ uart = UartInit
    /\ uart_tb = UartTbInit
    /\ soc_ram = RamDetached

NextJ ==
    \/ DecodeState /\ UNCHANGED socVars
    \/ Execute(MaxCycles) /\ UNCHANGED socVars
    \/ Writeback /\ UNCHANGED socVars

SpecJ == InitJ /\ [][NextJ]_vars

\* the engine alone running I/O programs
IoInstrWords ==
    { 20737,    \* 0x5101 ADDI R1, 1
      25616,    \* 0x6410 LW   R4, [R1]
      54288,    \* 0xD410 INI  R4, port 1
      54289,    \* 0xD411 OUTI port 1, R4
      54290,    \* 0xD412 IN   R4, [R1]
      54291,    \* 0xD413 OUT  [R1], R4
      62491,    \* 0xF41B INX  R4, imm16
      62492,    \* 0xF41C OUTX R4, R1, imm16
      57600     \* 0xE100 HALT
    }

\* bytes the I/O bus returns on io_rdata
IoInBytes == { 90, 165 }         \* 0x5A, 0xA5

NextIO ==
    \/ Reset /\ UNCHANGED socVars
    \/ Fetch(IoInstrWords, MaxCycles) /\ UNCHANGED socVars
    \/ DecodeState /\ UNCHANGED socVars
    \/ FetchExt(DataWords) /\ UNCHANGED socVars
    \/ ExecuteIn(IoInBytes, MaxCycles) /\ UNCHANGED socVars
    \/ Memory(DataWords) /\ UNCHANGED socVars
    \/ Writeback /\ UNCHANGED socVars
    \/ Halted /\ UNCHANGED socVars

SpecIO == Init /\ [][NextIO]_vars

TxCycles == 4

TxInstrWords ==
    { 20737,    \* 0x5101 ADDI R1, 1
      61703,    \* 0xF107 LIX  R1, imm16
      62492,    \* 0xF41C OUTX R4, R1, imm16
      62491,    \* 0xF41B INX  R4, imm16
      25616,    \* 0x6410 LW   R4, [R1]
      54291,    \* 0xD413 OUT
      57600     \* 0xE100 HALT
    }

TxDataWords == { 384, 385 }      \* ports 0x80 and 0x81 (0x0180, 0x0181)

\* the clock edge seen by the UART and by the consumer while the engine
\* drives the I/O bus with b
TxClock(b) ==
    /\ uart' = UartEdge(uart, b.io_addr, b.io_wdata, b.io_rd, b.io_wr,
                        1, 0, 0)
    /\ uart_tb' =
          [addr |-> b.io_addr, wdata |-> b.io_wdata, rd |-> b.io_rd,
           wr |-> b.io_wr, tx_ready |-> 1, rx_valid |-> 0, rx_data |-> 0,
           written |-> IF b.io_wr = 1 /\ b.io_addr = 129
                       THEN Append(uart_tb.written, b.io_wdata)
                       ELSE uart_tb.written,
           presented |-> IF tx_valid = 1
                         THEN Append(uart_tb.presented, tx_data)
                         ELSE uart_tb.presented]
    /\ UNCHANGED ramVars

\* cpu.io_rdata.eq(uart.rdata)
TxIoRdata(b) == UartRdata(uart, b.io_addr, b.io_rd)

\* the SoC: engine and UART share the clock, the consumer holds tx_ready
NextTX ==
    \/ \E b \in {io_bus} : Reset /\ TxClock(b)
    \/ \E b \in {io_bus} : Fetch(TxInstrWords, TxCycles) /\ TxClock(b)
    \/ \E b \in {io_bus} : DecodeState /\ TxClock(b)
    \/ \E b \in {io_bus} : FetchExt(TxDataWords) /\ TxClock(b)
    \/ \E b \in {io_bus} :
          ExecuteIn({TxIoRdata(b)}, TxCycles) /\ TxClock(b)
    \/ \E b \in {io_bus} : Memory(TxDataWords) /\ TxClock(b)
    \/ \E b \in {io_bus} : Writeback /\ TxClock(b)
    \/ \E b \in {io_bus} : Halted /\ TxClock(b)

SpecTX == Init /\ [][NextTX]_vars

(***************************************************************************)
(* rtl/soc.py: SampoSoC, the engine wired to the RAM and to the UART.      *)
(***************************************************************************)
\* words of the program image at the reset vector
SocProgWords ==
    { 29712,    \* 0x7410 SW   [R1], R4
      20737,    \* 0x5101 ADDI R1, 1
      25616,    \* 0x6410 LW   R4, [R1]
      61703,    \* 0xF107 LIX  R1, imm16
      57600,    \* 0xE100 HALT
      57344 }   \* 0xE000 NOP

\* number of program words that are drawn
SocProgLen == 3

\* word address of the reset vector
SocBase == reset_vector \div 2

InitSOC ==
    /\ CpuInit
    /\ rf_tb = RfTbInit
    /\ alu_tb = AluTbInit
    /\ bt_tb = BtTbInit
    /\ st_tb = StTbInit
    /\ sh_tb = ShTbInit
    /\ uart = UartInit
    /\ uart_tb = UartTbInit
    /\ \E prog \in [SocBase..(SocBase + SocProgLen - 1) -> SocProgWords] :
          soc_ram = RamInit(prog)

\* the clock edge seen by the RAM and by the UART while the engine drives
\* the memory bus with m and the I/O bus with b; nothing arrives on rx and
\* the consumer holds tx_ready
SocClock(m, b) ==
    /\ soc_ram' = RamEdge(soc_ram, mem_addr, m.mem_wdata, m.mem_we,
                          m.mem_be, mem_valid)
    /\ uart' = UartEdge(uart, b.io_addr, b.io_wdata, b.io_rd, b.io_wr,
                        1, 0, 0)
    /\ UNCHANGED uart_tb

\* cpu.mem_ready.eq(ram.ready), cpu.mem_rdata.eq(ram.rdata)
SocReady == mem_ready' = (soc_ram.ready = 1)
SocRdata == {RamRdata(soc_ram)}

NextSOC ==
    \/ \E m \in {mem_bus}, b \in {io_bus} : Reset /\ SocClock(m, b)
    \/ \E m \in {mem_bus}, b \in {io_bus} :
          Fetch(SocRdata, MaxCycles) /\ SocReady /\ SocClock(m, b)
    \/ \E m \in {mem_bus}, b \in {io_bus} : DecodeState /\ SocClock(m, b)
    \/ \E m \in {mem_bus}, b \in {io_bus} :
          FetchExt(SocRdata) /\ SocReady /\ SocClock(m, b)
    \/ \E m \in {mem_bus}, b \in {io_bus} :
          ExecuteIn({UartRdata(uart, b.io_addr, b.io_rd)}, MaxCycles)
          /\ SocClock(m, b)
    \/ \E m \in {mem_bus}, b \in {io_bus} :
          Memory(SocRdata) /\ SocReady /\ SocClock(m, b)
    \/ \E m \in {mem_bus}, b \in {io_bus} : Writeback /\ SocClock(m, b)
    \/ \E m \in {mem_bus}, b \in {io_bus} : Halted /\ SocClock(m, b)

SpecSOC == InitSOC /\ [][NextSOC]_vars

\* the engine running arithmetic that sets V followed by shifts
FlInstrWords ==
    { 61466,    \* 0xF01A CMPIX R1, imm16
      61703,    \* 0xF107 LIX  R1, imm16
      42000,    \* 0xA410 SLL1 R4, R1
      42002,    \* 0xA412 SRA1 R4, R1
      42006,    \* 0xA416 RCR1 R4, R1
      42013,    \* 0xA41D SRL8 R4, R1
      20737,    \* 0x5101 ADDI R1, 1
      5137,     \* 0x1411 SUB  R4, R1, R1
      46099,    \* 0xB413 DIV  R4, R1
      49427,    \* 0xC113 TEST R1, R1
      25616,    \* 0x6410 LW   R4, [R1]
      57600 }   \* 0xE100 HALT

FlDataWords == { 32768, 257 }    \* 0x8000, 0x0101

NextFL ==
    \/ Reset /\ UNCHANGED socVars
    \/ Fetch(FlInstrWords, MaxCycles) /\ UNCHANGED socVars
    \/ DecodeState /\ UNCHANGED socVars
    \/ FetchExt(FlDataWords) /\ UNCHANGED socVars
    \/ Execute(MaxCycles) /\ UNCHANGED socVars
    \/ Memory(FlDataWords) /\ UNCHANGED socVars
    \/ Writeback /\ UNCHANGED socVars
    \/ Halted /\ UNCHANGED socVars

SpecFL == Init /\ [][NextFL]_vars

\* the engine with a fair memory: one word of every instruction type
LiveInstrWords ==
    { 5137,     \* 0x1411 SUB  R4, R1, R1
      20737,    \* 0x5101 ADDI R1, 1
      25616,    \* 0x6410 LW   R4, [R1]
      29712,    \* 0x7410 SW   [R1], R4
      32771,    \* 0x8003 BEQ  +3
      36868,    \* 0x9004 J    +4
      42000,    \* 0xA410 SLL1 R4, R1
      46099,    \* 0xB413 DIV  R4, R1
      49163,    \* 0xC00B EXX
      54288,    \* 0xD410 INI  R4, port 1
      54291,    \* 0xD413 OUT
      53252,    \* 0xD004 IO func 4 (no decode case)
      57344,    \* 0xE000 NOP
      57600,    \* 0xE100 HALT
      61703,    \* 0xF107 LIX  R1, imm16
      62486 }   \* 0xF416 SWX  [R1 + imm16], R4

NextLive ==
    \/ Reset /\ UNCHANGED socVars
    \/ Fetch(LiveInstrWords, MaxCycles) /\ UNCHANGED socVars
    \/ DecodeState /\ UNCHANGED socVars
    \/ FetchExt(DataWords) /\ UNCHANGED socVars
    \/ Execute(MaxCycles) /\ UNCHANGED socVars
    \/ Memory(DataWords) /\ UNCHANGED socVars
    \/ Writeback /\ UNCHANGED socVars
    \/ Halted /\ UNCHANGED socVars

\* the clock makes the FSM take a step in every cycle, and a memory access
\* that is held is eventually answered with mem_ready
LiveFairness ==
    /\ WF_vars(Reset /\ UNCHANGED socVars)
    /\ WF_vars(DecodeState /\ UNCHANGED socVars)
    /\ WF_vars(Execute(MaxCycles) /\ UNCHANGED socVars)
    /\ WF_vars(Writeback /\ UNCHANGED socVars)
    /\ WF_vars(Fetch(LiveInstrWords, MaxCycles) /\ mem_ready'
                /\ UNCHANGED socVars)
    /\ WF_vars(FetchExt(DataWords) /\ mem_ready' /\ UNCHANGED socVars)
    /\ WF_vars(Memory(DataWords) /\ mem_ready' /\ UNCHANGED socVars)

SpecLive == Init /\ [][NextLive]_vars /\ LiveFairness

(***************************************************************************)
(* Properties.                                                             *)
(***************************************************************************)
\* instruction fields read straight from the word
OpcodeOf(i) == i \div 4096
RdOf(i) == (i \div 256) % 16
Rs1Of(i) == (i \div 16) % 16
FuncOf(i) == i % 16

\* C1: a read of register 0 on either read port yields 0 whatever was
\* written or swapped before, and a clock edge with wr_en=1 and wr_addr=0
\* leaves both banks as the same edge without the write leaves them (with
\* exx=0: unchanged).
C1_R0ReadsZero ==
    /\ [](/\ rf_tb.rd_addr1 = 0 => rf_tb.rd_data1 = 0
          /\ rf_tb.rd_addr2 = 0 => rf_tb.rd_data2 = 0
          /\ RegRead(regs, 0) = 0)
    /\ [][(rf_tb'.wr_en /\ rf_tb'.wr_addr = 0) =>
            /\ ~rf_tb'.exx => (regs' = regs /\ regs_alt' = regs_alt)
            /\ \A i \in {0, 1, 2, 3, 12, 13, 14, 15} : regs'[i] = regs[i]
            /\ \A i \in 0..7 :
                  rf_tb'.exx => (regs'[i + 4] = regs_alt[i]
                                 /\ regs_alt'[i] = regs[i + 4])]_vars

\* C1 witness: a write of 0xFFFF addressed to register 0 has been clocked
\* while register 0 was read and another register holds a written value
C1_Witness ==
    /\ rf_tb.wr_en /\ rf_tb.wr_addr = 0 /\ rf_tb.wr_data = 65535
    /\ rf_tb.rd_addr1 = 0
    /\ regs[4] = 4660

\* C2: once HALTED, the engine stays HALTED with halted=1 and PC, both
\* register banks, FLAGS, INT_ENABLED and CYCLES never change.
C2_HaltedTerminal ==
    [][state = "HALTED" =>
          /\ state' = "HALTED"
          /\ halted' = 1
          /\ UNCHANGED <<pc, regs, regs_alt, flags, int_enabled, cycles>>]_vars

\* C2 witness: HALTED entered by executing HALT after other instructions
C2_Witness ==
    state = "HALTED" /\ OpcodeOf(instr) = 14 /\ RdOf(instr) = 1 /\ cycles > 1

\* C3: every change of the FSM state is one of the listed edges; in
\* particular EXECUTE never lasts two consecutive cycles.
C3_Edges ==
    [][\E e \in { <<"RESET", "FETCH">>,
                  <<"FETCH", "FETCH">>, <<"FETCH", "DECODE">>,
                  <<"DECODE", "EXECUTE">>, <<"DECODE", "FETCH_EXT">>,
                  <<"FETCH_EXT", "FETCH_EXT">>, <<"FETCH_EXT", "EXECUTE">>,
                  <<"EXECUTE", "WRITEBACK">>, <<"EXECUTE", "MEMORY">>,
                  <<"EXECUTE", "FETCH">>, <<"EXECUTE", "HALTED">>,
                  <<"MEMORY", "MEMORY">>, <<"MEMORY", "WRITEBACK">>,
                  <<"MEMORY", "FETCH">>,
                  <<"WRITEBACK", "FETCH">>,
                  <<"HALTED", "HALTED">> } :
          state = e[1] /\ state' = e[2]]_vars

\* C4: CYCLES counts executed instructions: it changes only in the one
\* EXECUTE cycle of an instruction, by exactly 1, and that cycle ends the
\* instruction's EXECUTE state.
C4_CyclesPerInstruction ==
    [][/\ state # "EXECUTE" => cycles' = cycles
       /\ state = "EXECUTE" => (cycles' = cycles + 1 /\ state' # "EXECUTE")
      ]_vars

\* C5 (as stated): PC is even whenever the engine is in FETCH.
C5_PcEvenInFetch == state = "FETCH" => pc % 2 = 0

\* C5 (amended): every clock edge keeps the parity of PC, except the
\* EXECUTE cycle of JR/JALR, which loads PC from R[rs1], and of JX/JALX,
\* which loads it from the extended word; PC then has the parity of that
\* value.
C5_PcParity ==
    [][(pc' % 2 # pc % 2) =>
          /\ state = "EXECUTE"
          /\ \/ /\ OpcodeOf(instr) = 9
                /\ \/ (RdOf(instr) = 15 /\ FuncOf(instr) = 0)
                   \/ (FuncOf(instr) = 1 /\ RdOf(instr) # 0)
                /\ pc' = RegRead(regs, Rs1Of(instr))
             \/ /\ OpcodeOf(instr) = 15
                /\ FuncOf(instr) \in {8, 9}
                /\ pc' = instr_ext]_vars

\* C5 witness: FETCH reached with an even, non-reset PC loaded by JR from a
\* register
C5_Witness ==
    /\ state = "FETCH"
    /\ OpcodeOf(instr) = 9 /\ RdOf(instr) = 15 /\ FuncOf(instr) = 0
    /\ pc = regs[Rs1Of(instr)]
    /\ pc % 2 = 0 /\ pc > 0

\* C6: from DECODE to the end of any instruction of opcode LOAD (every
\* func), STORE, BRANCH, JUMP or IO, or of MISC/MOV, FLAGS keeps all 8 bits.
C6_FlagsPreserved ==
    [][(/\ state \in {"DECODE", "EXECUTE", "MEMORY", "WRITEBACK"}
        /\ \/ OpcodeOf(instr) \in {6, 7, 8, 9, 13}
           \/ (OpcodeOf(instr) = 12 /\ FuncOf(instr) = 4))
       => flags' = flags]_vars

\* C7: the EXECUTE cycle of EXX exchanges R4..R11 with the alternate bank
\* at one edge and leaves R0..R3 and R12..R15 alone; the banks do not change
\* while the next instruction is fetched and decoded; and from every
\* reachable register state two EXX edges in a row restore both banks.
C7_ExxSwap ==
    /\ [][/\ (state = "EXECUTE" /\ OpcodeOf(instr) = 12
              /\ FuncOf(instr) = 11) =>
                /\ \A i \in 0..7 : /\ regs'[i + 4] = regs_alt[i]
                                   /\ regs_alt'[i] = regs[i + 4]
                /\ \A i \in {0, 1, 2, 3, 12, 13, 14, 15} :
                      regs'[i] = regs[i]
          /\ state \in {"FETCH", "DECODE"} =>
                UNCHANGED <<regs, regs_alt>>]_vars
    /\ [](LET once == RegfileEdge(regs, regs_alt, FALSE, 0, 0, TRUE)
              twice == RegfileEdge(once.regs, once.regs_alt, FALSE, 0, 0,
                                   TRUE)
          IN  twice.regs = regs /\ twice.regs_alt = regs_alt)

\* C7 witness: EXX has just executed and moved a non-zero R4 into the
\* alternate bank
C7_Witness ==
    /\ state = "FETCH"
    /\ OpcodeOf(instr) = 12 /\ FuncOf(instr) = 11
    /\ regs_alt[0] # 0 /\ regs[4] = 0

\* C8: JALR (opcode 9, func 1, rd # 0) at address A sets PC to R[rs1] and
\* latches A+2, JALX (opcode F, func 9, rd # 0) sets PC to the extended word
\* and latches A+4; both go to WRITEBACK, which writes the latched link to
\* R[rd] and keeps PC; JR (9F.0) sets PC to R[rs1]. Sums are mod 2^16.
C8_CallReturn ==
    [][/\ (state = "EXECUTE" /\ OpcodeOf(instr) = 9 /\ FuncOf(instr) = 1
           /\ RdOf(instr) # 0) =>
             /\ pc' = RegRead(regs, Rs1Of(instr))
             /\ alu_result' = (pc + 2) % 65536
             /\ state' = "WRITEBACK" /\ instr' = instr
       /\ (state = "EXECUTE" /\ OpcodeOf(instr) = 15 /\ FuncOf(instr) = 9
           /\ RdOf(instr) # 0) =>
             /\ pc' = instr_ext
             /\ alu_result' = (pc + 4) % 65536
             /\ state' = "WRITEBACK" /\ instr' = instr
       /\ (/\ state = "WRITEBACK" /\ RdOf(instr) # 0
           /\ \/ (OpcodeOf(instr) = 9 /\ FuncOf(instr) = 1)
              \/ (OpcodeOf(instr) = 15 /\ FuncOf(instr) = 9)) =>
             /\ regs'[RdOf(instr)] = alu_result
             /\ pc' = pc
             /\ state' = "FETCH"
       /\ (state = "EXECUTE" /\ OpcodeOf(instr) = 9 /\ RdOf(instr) = 15
           /\ FuncOf(instr) = 0) =>
             (pc' = RegRead(regs, Rs1Of(instr)) /\ state' = "FETCH")]_vars

\* C8 witness: a JR through R5 has returned to the link a call saved there
\* (the call was at reset_vector, so the link is reset_vector+2 or +4)
C8_Witness ==
    /\ state = "FETCH"
    /\ instr = 40784
    /\ regs[5] \in {reset_vector + 2, reset_vector + 4}
    /\ pc = regs[5]

\* the table of section 4.5: taken-condition of each branch code
BranchTable(cond, n, z, c, v) ==
    CASE cond = 0 -> z
      [] cond = 1 -> ~z
      [] cond = 2 -> n # v
      [] cond = 3 -> n = v
      [] cond = 4 -> ~c
      [] cond = 5 -> c
      [] cond = 6 -> n
      [] cond = 7 -> ~n
      [] cond = 8 -> v
      [] cond = 9 -> ~v
      [] cond = 10 -> c
      [] cond = 11 -> ~c
      [] cond = 12 -> ~z /\ (n = v)
      [] cond = 13 -> z \/ (n # v)
      [] cond = 14 -> c /\ ~z
      [] cond = 15 -> ~c \/ z

\* C9: for each of the 16 condition codes and every FLAGS value,
\* branch_taken equals the table entry on N (bit 7), Z (6), C (5), V (4).
C9_BranchTable ==
    bt_tb.settled =>
        bt_tb.branch_taken =
            BranchTable(bt_tb.branch_cond,
                        bt_tb.flags >= 128,
                        (bt_tb.flags % 128) >= 64,
                        (bt_tb.flags % 64) >= 32,
                        (bt_tb.flags % 32) >= 16)

\* C9 witness: BGT evaluated as taken with N = V = 1 and Z = 0
C9_Witness ==
    /\ bt_tb.settled /\ bt_tb.branch_cond = 12 /\ bt_tb.flags = 144
    /\ bt_tb.branch_taken

\* C10: ADD gives (a+b) mod 2^16 with C = carry out and V = (a15 = b15 and
\* a15 # r15); SUB gives (a-b) mod 2^16 with C = borrow (a < b) and
\* V = (a15 # b15 and r15 # a15); N = r15 and Z = (r = 0) for both.
C10_AddSub ==
    (alu_tb.settled /\ alu_tb.op \in {0, 1}) =>
        LET a == alu_tb.a
            b == alu_tb.b
            o == alu_tb.out
            r == IF alu_tb.op = 0 THEN (a + b) % 65536
                 ELSE (a - b + 65536) % 65536
            a15 == a >= 32768
            b15 == b >= 32768
            r15 == r >= 32768
        IN  /\ o.result = r
            /\ (o.flag_n = 1) = r15
            /\ (o.flag_z = 1) = (r = 0)
            /\ alu_tb.op = 0 =>
                  /\ (o.flag_c = 1) = (a + b >= 65536)
                  /\ (o.flag_v = 1) = ((a15 = b15) /\ (a15 # r15))
            /\ alu_tb.op = 1 =>
                  /\ (o.flag_c = 1) = (a < b)
                  /\ (o.flag_v = 1) = ((a15 # b15) /\ (r15 # a15))

\* C10 witness: SUB with a borrow and a signed overflow (0x7FFF - 0x8000)
C10_Witness ==
    /\ alu_tb.settled /\ alu_tb.op = 1
    /\ alu_tb.a = 32767 /\ alu_tb.b = 32768
    /\ alu_tb.out.flag_c = 1 /\ alu_tb.out.flag_v = 1

\* C11: DIV (opcode B, func 3) with R[rs2] = 0 latches 0xFFFF and REM
\* (func 5) with R[rs2] = 0 latches the dividend R[rs1], for every dividend;
\* EXECUTE goes to WRITEBACK with PC advanced by 2, and WRITEBACK writes the
\* latched value to R[rd] and goes to FETCH: no HALTED, no trap state.  (The
\* rs2 field is the low nibble of the word, which also holds the func code.)
C11_DivRemByZero ==
    [][/\ (/\ state = "EXECUTE" /\ OpcodeOf(instr) = 11
           /\ FuncOf(instr) = 3 /\ RegRead(regs, instr % 16) = 0) =>
             /\ alu_result' = 65535
             /\ state' = "WRITEBACK" /\ pc' = (pc + 2) % 65536
       /\ (/\ state = "EXECUTE" /\ OpcodeOf(instr) = 11
           /\ FuncOf(instr) = 5 /\ RegRead(regs, instr % 16) = 0) =>
             /\ alu_result' = RegRead(regs, Rs1Of(instr))
             /\ state' = "WRITEBACK" /\ pc' = (pc + 2) % 65536
       /\ (/\ state = "WRITEBACK" /\ OpcodeOf(instr) = 11
           /\ FuncOf(instr) \in {3, 5}) =>
             /\ state' = "FETCH" /\ pc' = pc
             /\ RdOf(instr) # 0 => regs'[RdOf(instr)] = alu_result]_vars

\* C11 witness: DIV R4, R1 with R1 = 1 and a zero divisor has completed:
\* R4 = 0xFFFF and the engine is back in FETCH
C11_Witness ==
    /\ state = "FETCH" /\ instr = 46099
    /\ regs[1] = 1 /\ regs[3] = 0 /\ regs[4] = 65535

\* C11 second case reached: REM R4, R1 by zero has returned the dividend
C11_WitnessRem ==
    /\ state = "FETCH" /\ instr = 46101
    /\ regs[1] = 1 /\ regs[5] = 0 /\ regs[4] = 1

\* instruction words whose sub-function has no case in the decoder: LOAD
\* func 3..7, MULDIV func 8..15, IO func 4..15, MISC func 5..10
Undecoded(i) ==
    \/ OpcodeOf(i) = 6 /\ FuncOf(i) \in 3..7
    \/ OpcodeOf(i) = 11 /\ FuncOf(i) \in 8..15
    \/ OpcodeOf(i) = 13 /\ FuncOf(i) \in 4..15
    \/ OpcodeOf(i) = 12 /\ FuncOf(i) \in 5..10

\* C12: a word whose sub-function has no decode case acts as a NOP: its
\* EXECUTE cycle asserts no I/O strobe, advances PC by 2, changes no
\* register and no flag, and returns to FETCH without a memory access or a
\* register write.
C12_UndecodedIsNop ==
    [][(state = "EXECUTE" /\ Undecoded(instr)) =>
          /\ io_bus.io_rd = 0 /\ io_bus.io_wr = 0
          /\ pc' = (pc + 2) % 65536
          /\ UNCHANGED <<regs, regs_alt, flags>>
          /\ state' = "FETCH"]_vars

\* C13: a STORE (opcode 7: SW func 0, SB func 1) goes from EXECUTE to
\* MEMORY, where the bus address is the value R[rs1] had at EXECUTE, mem_we
\* is 1 and the write data is the value R[rd] had at EXECUTE (for SB its low
\* byte on the enabled byte lane).
C13_StoreAddrData ==
    [][(state = "EXECUTE" /\ OpcodeOf(instr) = 7) =>
          /\ state' = "MEMORY"
          /\ mem_addr' = RegRead(regs, Rs1Of(instr))
          /\ mem_bus'.mem_we = 1
          /\ FuncOf(instr) # 1 =>
                mem_bus'.mem_wdata = RegRead(regs, RdOf(instr))
          /\ FuncOf(instr) = 1 =>
                (IF mem_bus'.mem_be = 2
                 THEN Slice(mem_bus'.mem_wdata, 8, 16)
                 ELSE Slice(mem_bus'.mem_wdata, 0, 8))
                   = Slice(RegRead(regs, RdOf(instr)), 0, 8)]_vars

\* the byte a byte load at address x takes from the word w, extended to 16
\* bits: w[7:0] when x[0] = 0, w[15:8] when x[0] = 1; sign-extended for LB
ByteLoadValue(w, x, signed) ==
    LET b == IF x % 2 = 0 THEN w % 256 ELSE w \div 256
    IN  IF signed /\ b >= 128 THEN b + 65280 ELSE b

\* C14: when the MEMORY cycle of LB (opcode 6, func 1) or LBU (func 2)
\* completes, the value latched for rd is the byte of the returned word that
\* the low bit of the address selects, sign-extended for LB and
\* zero-extended for LBU (the returned word is one of DataWords).
C14_ByteLoad ==
    [][(/\ state = "MEMORY" /\ OpcodeOf(instr) = 6
        /\ FuncOf(instr) \in {1, 2} /\ state' = "WRITEBACK") =>
          \E w \in DataWords :
             alu_result' = ByteLoadValue(w, mem_addr, FuncOf(instr) = 1)]_vars

\* C15: a byte store of b (the low byte of the data latch) to address X (the
\* address latch) drives be = 01 with b in wdata[7:0] when X[0] = 0 and
\* be = 10 with b in wdata[15:8] when X[0] = 1; a word store drives be = 11
\* and the whole latch.  After the RAM's write edge a word load from the
\* word containing X returns b in the half selected by X[0] and the other
\* half as it was; the other words of the RAM keep their content.
C15_ByteStore ==
    (st_tb.phase # "idle" /\ st_tb.mem_store) =>
        LET x == st_tb.mem_addr_reg
            b == st_tb.mem_data_reg % 256
            old == st_tb.ram0[x \div 2]
            bus == st_tb.bus
        IN  /\ bus.mem_we = 1
            /\ (st_tb.mem_byte /\ x % 2 = 0) =>
                  (bus.mem_be = 1 /\ bus.mem_wdata % 256 = b)
            /\ (st_tb.mem_byte /\ x % 2 = 1) =>
                  (bus.mem_be = 2 /\ bus.mem_wdata \div 256 = b)
            /\ ~st_tb.mem_byte =>
                  (bus.mem_be = 3 /\ bus.mem_wdata = st_tb.mem_data_reg)
            /\ \A w \in 0..(RamWords - 1) :
                  w # x \div 2 => st_tb.ram[w] = st_tb.ram0[w]
            /\ (st_tb.phase = "loaded" /\ st_tb.mem_byte /\ x % 2 = 0) =>
                  st_tb.rdata = b + 256 * (old \div 256)
            /\ (st_tb.phase = "loaded" /\ st_tb.mem_byte /\ x % 2 = 1) =>
                  st_tb.rdata = (old % 256) + 256 * b
            /\ (st_tb.phase = "loaded" /\ ~st_tb.mem_byte) =>
                  st_tb.rdata = st_tb.mem_data_reg

\* C15 witness: the byte 0xCD of 0xABCD stored at the odd address 3 over the
\* word 0x5AA5 and loaded back as 0xCDA5
C15_Witness ==
    /\ st_tb.phase = "loaded" /\ st_tb.mem_store /\ st_tb.mem_byte
    /\ st_tb.mem_addr_reg = 3 /\ st_tb.mem_data_reg = 43981
    /\ st_tb.ram0[1] = 23205
    /\ st_tb.bus.mem_be = 2
    /\ st_tb.rdata = 52645

\* C16: in the EXECUTE cycle of OUT (opcode D, func 3) io_wr is 1, io_addr is
\* the low byte of R[rs1] and io_wdata is the low byte of R[rd]; in the
\* EXECUTE cycle of OUTI (func 1) io_wr is 1, io_addr is the rs1 nibble and
\* io_wdata is the low byte of R[rd].
C16_OutPortAndData ==
    /\ (state = "EXECUTE" /\ OpcodeOf(instr) = 13 /\ FuncOf(instr) = 3) =>
          /\ io_bus.io_wr = 1
          /\ io_bus.io_addr = RegRead(regs, Rs1Of(instr)) % 256
          /\ io_bus.io_wdata = RegRead(regs, RdOf(instr)) % 256
    /\ (state = "EXECUTE" /\ OpcodeOf(instr) = 13 /\ FuncOf(instr) = 1) =>
          /\ io_bus.io_wr = 1
          /\ io_bus.io_addr = Rs1Of(instr)
          /\ io_bus.io_wdata = RegRead(regs, RdOf(instr)) % 256

\* C17: in the EXECUTE cycle of OUTX (opcode F, func C) io_wr is 1, io_addr
\* is the low byte of the extended word and io_wdata is the low byte of
\* R[rd].
C17_OutxPortAndData ==
    (state = "EXECUTE" /\ OpcodeOf(instr) = 15 /\ FuncOf(instr) = 12) =>
        /\ io_bus.io_wr = 1
        /\ io_bus.io_addr = instr_ext % 256
        /\ io_bus.io_wdata = RegRead(regs, RdOf(instr)) % 256

\* C18: LUI (opcode 6, func 8) makes no memory access (EXECUTE goes to
\* WRITEBACK, never to MEMORY), and the register write that completes it
\* leaves the instruction's byte immediate in the upper byte of R[rd],
\* whatever R[rd] held before.
C18_LuiUpperByte ==
    [][/\ (state = "EXECUTE" /\ OpcodeOf(instr) = 6 /\ FuncOf(instr) = 8) =>
             (state' = "WRITEBACK" /\ mem_valid' = 0)
       /\ (/\ state = "WRITEBACK" /\ OpcodeOf(instr) = 6
           /\ FuncOf(instr) = 8 /\ RdOf(instr) # 0) =>
             regs'[RdOf(instr)] \div 256 = instr % 256]_vars

\* quotient rounded toward zero and the remainder that goes with it (sign of
\* the dividend), for y # 0
Abs(x) == IF x < 0 THEN 0 - x ELSE x
TruncDiv(x, y) ==
    IF (x < 0) # (y < 0) THEN 0 - (Abs(x) \div Abs(y))
    ELSE Abs(x) \div Abs(y)
TruncRem(x, y) == x - y * TruncDiv(x, y)

\* the operation section 3 names for each MULDIV func code, on 16-bit a and
\* b, reduced mod 2^16 (zero divisor: 0xFFFF for a quotient, the dividend
\* for a remainder).  The high half of the unsigned product is computed by
\* parts to stay within 32-bit integers.
MulDivNamed(func, a, b) ==
    LET sa == AsSigned(a, 16)
        sb == AsSigned(b, 16)
    IN  CASE func = 0 -> (sa * sb) % 65536
          [] func = 1 -> ((sa * sb) \div 65536) % 65536
          [] func = 2 -> ((a \div 256) * b + ((a % 256) * b) \div 256)
                            \div 256
          [] func = 3 -> IF b = 0 THEN 65535 ELSE TruncDiv(sa, sb) % 65536
          [] func = 4 -> IF b = 0 THEN 65535 ELSE a \div b
          [] func = 5 -> IF b = 0 THEN a ELSE TruncRem(sa, sb) % 65536
          [] func = 6 -> IF b = 0 THEN a ELSE a % b

\* C19: for each MULDIV func code 0..6 the value latched for rd in EXECUTE
\* is the named operation on R[rs1] and R[rs2] (MUL, MULH, MULHU, DIV, DIVU,
\* REM, REMU), and WRITEBACK writes that value to R[rd].
C19_MulDivFuncs ==
    [][/\ (/\ state = "EXECUTE" /\ OpcodeOf(instr) = 11
           /\ FuncOf(instr) \in 0..6) =>
             /\ alu_result' = MulDivNamed(FuncOf(instr),
                                          RegRead(regs, Rs1Of(instr)),
                                          RegRead(regs, instr % 16))
             /\ state' = "WRITEBACK"
       /\ (/\ state = "WRITEBACK" /\ OpcodeOf(instr) = 11
           /\ FuncOf(instr) \in 0..6 /\ RdOf(instr) # 0) =>
             regs'[RdOf(instr)] = alu_result]_vars

\* C20: for signed 16-bit a and b # 0, ALU DIV returns the quotient rounded
\* toward zero and ALU REM the remainder with the sign of the dividend
\* (a = b * DIV + REM), each mod 2^16; e.g. -7 / 2 = -3 remainder -1.
C20_DivRemTruncate ==
    (alu_tb.settled /\ alu_tb.op \in {10, 11} /\ alu_tb.b # 0) =>
        LET sa == AsSigned(alu_tb.a, 16)
            sb == AsSigned(alu_tb.b, 16)
        IN  alu_tb.out.result =
               IF alu_tb.op = 10 THEN TruncDiv(sa, sb) % 65536
               ELSE TruncRem(sa, sb) % 65536

\* C21: while the engine is in FETCH, FETCH_EXT or MEMORY and mem_ready is
\* sampled 0 at the clock edge, the FSM state, PC, both register banks,
\* FLAGS, INT_ENABLED, CYCLES, IR, IR_EXT and the memory and result latches
\* keep their values; holding at every step, this covers any number of
\* consecutive stalled cycles
C21_StallHolds ==
    [][(state \in {"FETCH", "FETCH_EXT", "MEMORY"} /\ ~mem_ready')
          => UNCHANGED <<state, pc, regs, regs_alt, flags, int_enabled,
                         cycles, instr, instr_ext, alu_result, mem_addr_reg,
                         mem_data_reg>>]_vars

\* a data access that has been stalled by a wait state
C21_Witness == state = "MEMORY" /\ ~mem_ready

\* C22: RESET lasts exactly one cycle: the step out of RESET enters FETCH
\* and no step enters RESET; in that first FETCH cycle PC = reset_vector,
\* FLAGS = 0, INT_ENABLED = 0, CYCLES = 0 and the bus carries
\* mem_addr = reset_vector, mem_valid = 1, mem_we = 0
C22_ResetThenFetch ==
    [][/\ state' # "RESET"
       /\ state = "RESET"
             => /\ state' = "FETCH"
                /\ pc' = reset_vector
                /\ flags' = 0
                /\ int_enabled' = 0
                /\ cycles' = 0
                /\ mem_addr' = reset_vector
                /\ mem_valid' = 1
                /\ mem_bus'.mem_we = 0]_vars

\* the first FETCH cycle: nothing fetched yet, the reset vector on the bus
C22_Witness ==
    /\ state = "FETCH" /\ instr = 0 /\ cycles = 0 /\ ~mem_ready
    /\ pc = reset_vector /\ mem_addr = reset_vector /\ mem_valid = 1

\* C23: in the register file, for every combination of the inputs (exx
\* included), a cycle with wr_en = 1 and wr_addr # 0 leaves wr_data in
\* register wr_addr after the clock edge, and a read of that register in the
\* writing cycle returns the value it held before the edge
C23_WriteCommits ==
    [][(rf_tb'.wr_en /\ rf_tb'.wr_addr # 0)
          => /\ regs'[rf_tb'.wr_addr] = rf_tb'.wr_data
             /\ rf_tb'.rd_addr1 = rf_tb'.wr_addr
                   => rf_tb'.rd_data1 = regs[rf_tb'.wr_addr]]_vars

\* C24: in the SoC with the consumer holding tx_ready = 1, the bytes
\* presented on the UART (tx_valid = 1, tx_data) are, in order and without
\* repetition, the bytes the engine has written to port 0x81: the presented
\* sequence is the written sequence less the byte still pending in tx_buf,
\* and when halted asserts every written byte has been presented
C24_TxInOrderOnce ==
    LET w == uart_tb.written
        p == uart_tb.presented
    IN  /\ Len(w) = Len(p) + tx_valid
        /\ p = SubSeq(w, 1, Len(p))
        /\ tx_valid = 1 => tx_data = w[Len(w)]
        /\ halted = 1 => p = w

\* a program that has written two different bytes and halted
C24_Witness ==
    /\ halted = 1
    /\ Len(uart_tb.written) = 2
    /\ uart_tb.written[1] # uart_tb.written[2]
    /\ uart_tb.presented = uart_tb.written

C26_WriteSetsPending ==
    (uart_tb.wr = 1 /\ uart_tb.addr = 129)
        => (uart.tx_buf = uart_tb.wdata /\ uart.tx_pending = 1)

\* C27: the EXECUTE step of a MULDIV instruction (opcode 0xB) updates N, Z,
\* C and V of FLAGS from the ALU flag outputs, as ALU_REG and ALU_IMM do
C27_MulDivFlags ==
    [][(state = "EXECUTE" /\ Slice(instr, 12, 16) = 11)
          => /\ Bit(flags', 7) = alu.flag_n
             /\ Bit(flags', 6) = alu.flag_z
             /\ Bit(flags', 5) = alu.flag_c
             /\ Bit(flags', 4) = alu.flag_v]_vars

\* C28: the EXECUTE step of TEST (MISC func 3) leaves in FLAGS the N and Z
\* of R[rs1] AND R[rs2] with C and V cleared, and writes no register (the
\* step returns to FETCH with both banks unchanged)
C28_TestFlags ==
    [][(state = "EXECUTE" /\ decoder.inst_type = InstType.MISC
          /\ decoder.func = 3)
          => LET r == ALU(rs1_data, rs2_data, ALUOp.AND, 0)
             IN  /\ Bit(flags', 7) = Bit(r.result, 15)
                 /\ Bit(flags', 6) = BoolBit(r.result = 0)
                 /\ Bit(flags', 5) = 0
                 /\ Bit(flags', 4) = 0
                 /\ state' = "FETCH"
                 /\ UNCHANGED <<regs, regs_alt>>]_vars

\* C29: the EXECUTE step of CMPIX (extended func 0xA) sets N, Z, C and V
\* from SUB(R[rs1], IR_EXT), writes no register, advances PC by 4 and is
\* followed directly by FETCH
C29_Cmpix ==
    [][(state = "EXECUTE" /\ decoder.inst_type = InstType.EXTENDED
          /\ decoder.func = 10)
          => LET r == ALU(RegRead(regs, decoder.rs1), instr_ext,
                          ALUOp.SUB, 0)
             IN  /\ Bit(flags', 7) = r.flag_n
                 /\ Bit(flags', 6) = r.flag_z
                 /\ Bit(flags', 5) = r.flag_c
                 /\ Bit(flags', 4) = r.flag_v
                 /\ pc' = Trunc(pc + 4, 16)
                 /\ UNCHANGED <<regs, regs_alt>>
                 /\ state' = "FETCH"]_vars

\* C30: the EXECUTE step of LWX (extended func 5) and SWX (func 6), for any
\* rd and rs1, goes to MEMORY with the address (R[rs1] + IR_EXT) mod 2^16 on
\* the bus, R[rs1] being read at EXECUTE, and with PC advanced by 4; for
\* SWX the bus carries a write of R[rd]
C30_LwxSwxAddress ==
    [][(state = "EXECUTE" /\ decoder.inst_type = InstType.EXTENDED
          /\ decoder.func \in {5, 6})
          => /\ state' = "MEMORY"
             /\ mem_valid' = 1
             /\ mem_addr' = Trunc(RegRead(regs, decoder.rs1) + instr_ext, 16)
             /\ pc' = Trunc(pc + 4, 16)
             /\ decoder.func = 6
                   => /\ mem_bus'.mem_we = 1
                      /\ mem_bus'.mem_wdata = RegRead(regs, decoder.rd)]_vars

\* C31: in every reachable cycle mem_valid = 1 exactly when the state is
\* FETCH, FETCH_EXT or MEMORY, and mem_we = 1 only in MEMORY while the
\* instruction register holds a store (opcode 0x7, or opcode 0xF with
\* func 6); mem_we is 0 during a fetch and during a load
C31_ValidAndWriteEnable ==
    /\ mem_valid = 1 <=> state \in {"FETCH", "FETCH_EXT", "MEMORY"}
    /\ mem_bus.mem_we = 1
          => /\ state = "MEMORY"
             /\ \/ Slice(instr, 12, 16) = 7
                \/ Slice(instr, 12, 16) = 15 /\ Slice(instr, 0, 4) = 6
    /\ state \in {"FETCH", "FETCH_EXT"} => mem_bus.mem_we = 0
    /\ (state = "MEMORY" /\ Slice(instr, 12, 16) = 6) => mem_bus.mem_we = 0
    /\ (state = "MEMORY" /\ Slice(instr, 12, 16) = 15
          /\ Slice(instr, 0, 4) = 5) => mem_bus.mem_we = 0

\* the MEMORY cycle of a store, write enable asserted
C31_Witness == state = "MEMORY" /\ mem_valid = 1 /\ mem_bus.mem_we = 1

\* the instruction register holds an input (IN, INI, INX) or an output
\* (OUT, OUTI, OUTX) instruction
IsIoInput ==
    \/ Slice(instr, 12, 16) = 13 /\ Slice(instr, 0, 4) \in {0, 2}
    \/ Slice(instr, 12, 16) = 15 /\ Slice(instr, 0, 4) = 11
IsIoOutput ==
    \/ Slice(instr, 12, 16) = 13 /\ Slice(instr, 0, 4) \in {1, 3}
    \/ Slice(instr, 12, 16) = 15 /\ Slice(instr, 0, 4) = 12

\* C32: io_rd and io_wr are never asserted together and only in EXECUTE;
\* the EXECUTE cycle of an input (output) instruction asserts io_rd (io_wr)
\* and is left after that one cycle, so the strobe is a one-cycle pulse; an
\* input latches a byte of io_rdata, zero-extended, and its WRITEBACK
\* writes that value to rd
C32_IoStrobes ==
    [][/\ ~(io_bus.io_rd = 1 /\ io_bus.io_wr = 1)
       /\ (io_bus.io_rd = 1 \/ io_bus.io_wr = 1) => state = "EXECUTE"
       /\ (state = "EXECUTE" /\ IsIoInput)
             => /\ io_bus.io_rd = 1
                /\ state' = "WRITEBACK"
                /\ io_bus'.io_rd = 0
                /\ alu_result' \in IoInBytes
       /\ (state = "EXECUTE" /\ IsIoOutput)
             => /\ io_bus.io_wr = 1
                /\ state' = "FETCH"
                /\ io_bus'.io_wr = 0
       /\ (state = "WRITEBACK" /\ IsIoInput /\ Slice(instr, 8, 12) # 0)
             => regs'[Slice(instr, 8, 12)] = alu_result]_vars

\* an input instruction has written the sampled byte to R4
C32_Witness ==
    /\ state = "FETCH" /\ IsIoInput /\ regs[4] \in IoInBytes
    /\ io_bus.io_rd = 0

\* sign extension of the 12-bit field instr[11:0]
Sext12(i) == IF i % 4096 >= 2048 THEN (i % 4096) - 4096 ELSE i % 4096

\* C33: a word of primary opcode 0x9 is decoded as JR iff
\* (instr & 0x0F0F) = 0x0F00 (rd = 0xF and func = 0), otherwise as JALR iff
\* func = 1 and rd # 0, otherwise as J; offset12 is the sign extension of
\* instr[11:0] for each of the 4096 words, and the EXECUTE step of a J at
\* address A sets PC to (A + 2 * sext12) mod 2^16
C33_JumpDecode ==
    [][Slice(instr, 12, 16) = 9
          => LET rd == Slice(instr, 8, 12)
                 func == Slice(instr, 0, 4)
                 jr == rd = 15 /\ func = 0
                 jalr == ~jr /\ func = 1 /\ rd # 0
             IN  /\ decoder.offset12 = Sext12(instr)
                 /\ jr => /\ decoder.inst_type = InstType.JUMP_REG
                          /\ ~decoder.is_call /\ ~decoder.reg_write
                 /\ jalr => /\ decoder.inst_type = InstType.JUMP_REG
                            /\ decoder.is_call /\ decoder.reg_write
                 /\ (~jr /\ ~jalr) => decoder.inst_type = InstType.JUMP
                 /\ (state = "EXECUTE" /\ ~jr /\ ~jalr)
                       => /\ pc' = (pc + 2 * Sext12(instr) + 65536) % 65536
                          /\ state' = "FETCH"]_vars

\* a J with the most negative offset has wrapped PC around 0
C33_Witness ==
    state = "FETCH" /\ instr = 38912 /\ pc = 61696

\* C34: for the ALU operations AND, OR, XOR, SLL, SRL and SRA, for all a, b
\* and shift_amt, the flag outputs flag_c and flag_v are 0
C34_LogicShiftFlags ==
    (alu_tb.settled
       /\ alu_tb.op \in {ALUOp.AND, ALUOp.OR, ALUOp.XOR, ALUOp.SLL,
                         ALUOp.SRL, ALUOp.SRA})
        => (alu_tb.out.flag_c = 0 /\ alu_tb.out.flag_v = 0)

\* n successive 1-bit shifts of kind f1 (0 = SLL1, 1 = SRL1, 2 = SRA1):
\* the value and the carry the last of them leaves
RECURSIVE ShiftSteps(_, _, _)
ShiftSteps(v, f1, n) ==
    IF n = 1 THEN Shifter(v, f1, 0)
    ELSE Shifter(ShiftSteps(v, f1, n - 1).result, f1, 0)

\* C35: for every value v, SLLn and SRLn fill the vacated bits with 0,
\* SRA1, SRA4 and SRA8 fill them with v[15], the other bits are the bits of
\* v moved by n places, the carry-out is the last bit shifted out (the
\* carry n successive 1-bit shifts leave), and SWAP applied twice gives v
C35_ShifterBits ==
    sh_tb.settled =>
        LET v == sh_tb.value
            f == sh_tb.func
            r == sh_tb.out.result
            n == CASE f \in {0, 1, 2} -> 1
                   [] f \in {8, 9, 10} -> 4
                   [] OTHER -> 8
        IN  /\ f \in {0, 8, 12}
                  => /\ \A i \in 0..15 :
                           Bit(r, i) = IF i >= n THEN Bit(v, i - n) ELSE 0
                     /\ sh_tb.out.carry_out = Bit(v, 16 - n)
                     /\ sh_tb.out = ShiftSteps(v, 0, n)
            /\ f \in {1, 9, 13}
                  => /\ \A i \in 0..15 :
                           Bit(r, i) = IF i + n <= 15 THEN Bit(v, i + n)
                                       ELSE 0
                     /\ sh_tb.out.carry_out = Bit(v, n - 1)
                     /\ sh_tb.out = ShiftSteps(v, 1, n)
            /\ f \in {2, 10, 14}
                  => /\ \A i \in 0..15 :
                           Bit(r, i) = IF i + n <= 15 THEN Bit(v, i + n)
                                       ELSE Bit(v, 15)
                     /\ sh_tb.out.carry_out = Bit(v, n - 1)
                     /\ sh_tb.out = ShiftSteps(v, 2, n)
            /\ f = 7
                  => /\ Shifter(r, 7, sh_tb.carry_in).result = v
                     /\ sh_tb.out.carry_out = 0

\* SRA8 of a negative value: the high byte is filled with ones and the
\* carry is bit 7 of the value
C35_Witness ==
    /\ sh_tb.settled /\ sh_tb.func = 14 /\ sh_tb.value = 33153
    /\ sh_tb.out.result = 65409 /\ sh_tb.out.carry_out = 1

\* C36: with FLAGS as CMP leaves them (the flag outputs of SUB on the two
\* register values a and b), BLTU is taken iff a < b and BGEU iff a >= b
\* as unsigned numbers, BLT is taken iff a < b and BGE iff a >= b as signed
\* numbers
C36_CompareBranches ==
    (alu_tb.settled /\ alu_tb.op = ALUOp.SUB)
        => LET f == FlagsFromAlu(0, alu_tb.out)
               a == alu_tb.a
               b == alu_tb.b
               sa == AsSigned(a, 16)
               sb == AsSigned(b, 16)
           IN  /\ BranchTaken(4, f) <=> a < b
               /\ BranchTaken(5, f) <=> a >= b
               /\ BranchTaken(2, f) <=> sa < sb
               /\ BranchTaken(3, f) <=> sa >= sb

\* C37: in the SoC every word latched into IR at the end of FETCH is the RAM
\* word at address PC and every word latched into IR_EXT at the end of
\* FETCH_EXT is the RAM word at PC + 2, whatever instruction came before,
\* a store whose MEMORY state is followed directly by FETCH included
C37_FetchReadsPc ==
    [][ /\ (state = "FETCH" /\ state' = "DECODE")
           => instr' = RamWord(soc_ram.mem, pc \div 2)
        /\ (state = "FETCH_EXT" /\ state' = "EXECUTE")
           => instr_ext' = RamWord(soc_ram.mem, Trunc(pc + 2, 16) \div 2)
      ]_vars

\* C38: the reserved FLAGS bits 3..0 are 0 in every reachable state, and
\* the EXECUTE cycle of a SHIFT instruction leaves V (bit 4) and bits 3..0
\* as they were: only N, Z and C can change
C38_ReservedAndShift ==
    [][ /\ flags % 16 = 0
        /\ flags' % 16 = 0
        /\ (state = "EXECUTE" /\ decoder.inst_type = InstType.SHIFT)
           => Slice(flags', 0, 5) = Slice(flags, 0, 5)
      ]_vars

\* a SHIFT has executed with V set, and V is still set
C38_Witness ==
    /\ state = "WRITEBACK"
    /\ decoder.inst_type = InstType.SHIFT
    /\ Bit(flags, 4) = 1
    /\ flags % 16 = 0

\* C39: wr_en is asserted only in WRITEBACK and exx only in EXECUTE, never
\* both in one cycle; every clock edge leaves the two register banks as the
\* register file makes them under these two strobes, and a bank changes only
\* at the edge ending a WRITEBACK cycle with reg_write and rd # 0 or an
\* EXECUTE cycle of EXX
C39_RegfileStrobes ==
    [][ /\ regfile_wr_en => state = "WRITEBACK"
        /\ regfile_exx => state = "EXECUTE"
        /\ ~(regfile_wr_en /\ regfile_exx)
        /\ \E rf \in {RegfileEdge(regs, regs_alt, regfile_wr_en, decoder.rd,
                                  alu_result, regfile_exx)} :
              regs' = rf.regs /\ regs_alt' = rf.regs_alt
        /\ (regs' # regs \/ regs_alt' # regs_alt)
           => \/ /\ state = "WRITEBACK"
                 /\ decoder.reg_write
                 /\ decoder.rd # 0
              \/ /\ state = "EXECUTE"
                 /\ decoder.inst_type = InstType.MISC
                 /\ decoder.is_exx
      ]_vars

\* a WRITEBACK has put a non-zero value in R4 and a later EXX has moved it
\* to the alternate bank
C39_Witness ==
    /\ state = "FETCH"
    /\ instr = 49163
    /\ regs_alt[0] # 0
    /\ regs[4] = 0

====
